---- MODULE Spec2Model ----
(***************************************************************************)
(* A model of the MOTION/ABYN core: the circuit registry `Core` (id         *)
(* allocation, gate table, transport delegation, active-gate queue) and the *)
(* square-pair provider `SpProviderFromOts`.                                *)
(*                                                                          *)
(* C++ vectors are 0-indexed, TLA+ sequences 1-indexed: element i of a      *)
(* vector v is v[i + 1].                                                    *)
(***************************************************************************)
EXTENDS Integers, Sequences, FiniteSets, TLC

(***************************************************************************)
(* Bounds of the model.                                                     *)
(***************************************************************************)
MaxAllocCalls == 4     \* allocator calls made in one run
MaxParallel == 2       \* largest num_of_parallel_values passed to an allocator
MaxGates == 3          \* gates registered in one run
NumHandlers == 3       \* parties of the transport table
MaxSends == 2          \* Send calls made in one run
NumProducers == 2      \* threads calling AddToActiveQueue
NumConsumers == 2      \* threads calling GetNextGateFromOnlineQueue
MaxPushes == 2         \* pushes per producer
NumParties == 2        \* parties of a square-pair run (ot_providers_.size())
MaxCount == 3          \* largest number_of_sps_W requested
MaxSpCalls == 3        \* PreSetup / Setup calls made on one provider
NumWaiters == 2        \* threads waiting on one provider's completion condition
SizeBits == 4          \* bits of the std::size_t the model computes with
MaxPairs == 2          \* pairs per width when every random value is enumerated
kMaxBatchSize == 2     \* stands for kMaxBatchSize of utility/constants.h: pairs per OT batch

VARIABLES
  \* ---- build and configuration
  ndebug,                          \* TRUE: assert() is compiled out (NDEBUG)
  my_id,                           \* config_->GetMyId()
  core_abort,                      \* the process was aborted by an assert
  core_ret,                        \* what the last Core call returned or threw
  \* ---- Core: id allocation
  global_gate_id_, global_wire_id_,
  global_arithmetic_sharing_id_, global_gmw_sharing_id_,
  gate_id_log, wire_id_log,        \* history: ids returned, in call order
  arith_log, gmw_log,              \* history: <<start, n>> per call, in call order
  \* ---- Core: gate table
  gates_, input_gates_,
  registered_log,                  \* history: the gates passed to RegisterNextGate
  unregistered,                    \* history: the ids passed to UnregisterGate
  \* ---- Core: transport
  communication_handlers_,         \* vector of handler pointers (TRUE) or nullptr (FALSE)
  handler_calls,                   \* per party: the messages its handler was given
  send_count,                      \* history: number of Send calls
  \* ---- Core: active queue
  active_gates_, active_queue_mutex_,
  queue_corrupt,                   \* the std::queue was popped while empty
  queue_abort,                     \* a hardened build aborted on that pop
  qpc, qlocal, qret,               \* per thread: position, local gate_id, last return
  npush,                           \* per producer: pushes made
  pushed,                          \* history: the ids pushed
  popped,                          \* history: per id, how many pops returned it
  pop_on_empty,                    \* history: pop() ran on an empty queue
  \* ---- square-pair provider: configuration of the run
  num_parties,                     \* ot_providers_.size(), the same at every party
  number_of_sps,                   \* per width: number_of_sps_W_, the same at every party
  full_random,                     \* the random source ranges over all W-bit values
  need_ret,                        \* what the NeedSps call returned, <<>> before it
  \* ---- square-pair provider: one SpProviderFromOts per party
  sps_a, sps_c,                    \* per party, per width: sps_W_.a and sps_W_.c
  ots_sender_, ots_receiver_,      \* per party, per peer: list of OT handles
  finished_,                       \* per party
  cond_mutex,                      \* per party: holder of finished_condition_'s mutex
  run_time_statistics_,            \* per party: RecordStart / RecordEnd calls, in order
  sp_pc, sp_workers, sp_next_peer, \* per party: position, loop workers left, parse index
  sp_hist,                         \* per party, history: calls made, in order
  sp_result,                       \* per party: how the last call ended
  sp_log,                          \* per party, history: steps of the last Setup
  parse_log,                       \* per party, per peer, history: handles consumed
  notify_count,                    \* per party, history: NotifyAll calls
  \* ---- the OT layer (behind OtProvider)
  ot_send, ot_recv,                \* per party, per peer: OT objects registered, in order
  \* ---- threads waiting on a completion condition
  wpc                              \* per party, per waiter: position

allocVars == <<global_gate_id_, global_wire_id_, global_arithmetic_sharing_id_,
               global_gmw_sharing_id_, gate_id_log, wire_id_log, arith_log, gmw_log>>
gateVars  == <<gates_, input_gates_, registered_log, unregistered>>
sendVars  == <<communication_handlers_, handler_calls, send_count>>
queueVars == <<active_gates_, active_queue_mutex_, queue_corrupt, queue_abort,
               qpc, qlocal, qret, npush, pushed, popped, pop_on_empty>>
coreVars  == <<ndebug, my_id, core_abort, core_ret>>
registryVars == <<coreVars, allocVars, gateVars, sendVars, queueVars>>
spConfig  == <<num_parties, number_of_sps, full_random, need_ret>>
spData    == <<sps_a, sps_c, ots_sender_, ots_receiver_, ot_send, ot_recv, parse_log>>
spControl == <<sp_pc, sp_workers, sp_next_peer, sp_hist, sp_result, sp_log,
               run_time_statistics_>>
spCond    == <<finished_, cond_mutex, notify_count, wpc>>
spVars    == <<spConfig, spData, spControl, spCond>>

vars == <<registryVars, spVars>>

(***************************************************************************)
(* Values.                                                                  *)
(***************************************************************************)
nullptr == "nullptr"
Gates == {"g1", "g2"}                    \* gate objects a caller may register
GatePtrs == Gates \cup {nullptr}
Messages == {"msg"}                      \* flatbuffer messages
PartyIds == 0 .. NumHandlers - 1
NoRet == [op |-> "none", status |-> "ok", value |-> 0]
Sentinel == 0 - 1                        \* the -1 of GetNextGateFromOnlineQueue

At(v, i) == v[i + 1]                     \* std::vector::at for an index in range
InRange(v, i) == i >= 0 /\ i < Len(v)
SeqToSet(s) == {s[k] : k \in 1 .. Len(s)}

(***************************************************************************)
(* Core: id allocation (part_000 lines 33-49, 113).                        *)
(***************************************************************************)
AllocCalls == Len(gate_id_log) + Len(wire_id_log) + Len(arith_log) + Len(gmw_log)

\* (mutant) pre-increment: return ++global_gate_id_
NextGateId_preincrement ==
  /\ ~core_abort
  /\ AllocCalls < MaxAllocCalls
  /\ global_gate_id_' = global_gate_id_ + 1
  /\ core_ret' = [op |-> "NextGateId", status |-> "ok", value |-> global_gate_id_ + 1]
  /\ gate_id_log' = Append(gate_id_log, global_gate_id_ + 1)
  /\ UNCHANGED <<global_wire_id_, global_arithmetic_sharing_id_, global_gmw_sharing_id_,
                 wire_id_log, arith_log, gmw_log>>
  /\ UNCHANGED <<ndebug, my_id, core_abort, gateVars, sendVars, queueVars, spVars>>

\* return global_gate_id_++
NextGateId ==
  /\ ~core_abort
  /\ AllocCalls < MaxAllocCalls
  /\ global_gate_id_' = global_gate_id_ + 1
  /\ core_ret' = [op |-> "NextGateId", status |-> "ok", value |-> global_gate_id_]
  /\ gate_id_log' = Append(gate_id_log, global_gate_id_)
  /\ UNCHANGED <<global_wire_id_, global_arithmetic_sharing_id_, global_gmw_sharing_id_,
                 wire_id_log, arith_log, gmw_log>>
  /\ UNCHANGED <<ndebug, my_id, core_abort, gateVars, sendVars, queueVars, spVars>>

\* return global_wire_id_++
NextWireId ==
  /\ ~core_abort
  /\ AllocCalls < MaxAllocCalls
  /\ global_wire_id_' = global_wire_id_ + 1
  /\ core_ret' = [op |-> "NextWireId", status |-> "ok", value |-> global_wire_id_]
  /\ wire_id_log' = Append(wire_id_log, global_wire_id_)
  /\ UNCHANGED <<global_gate_id_, global_arithmetic_sharing_id_, global_gmw_sharing_id_,
                 gate_id_log, arith_log, gmw_log>>
  /\ UNCHANGED <<ndebug, my_id, core_abort, gateVars, sendVars, queueVars, spVars>>

\* (mutant) the counter advances by one, whatever the number of values
NextArithmeticSharingId_advance_one(num_of_parallel_values) ==
  /\ ~core_abort
  /\ AllocCalls < MaxAllocCalls
  /\ IF num_of_parallel_values = 0 /\ ~ndebug
       THEN /\ core_abort' = TRUE
            /\ core_ret' = [op |-> "NextArithmeticSharingId", status |-> "abort", value |-> 0]
            /\ UNCHANGED <<global_arithmetic_sharing_id_, arith_log>>
       ELSE /\ global_arithmetic_sharing_id_' = global_arithmetic_sharing_id_ + 1
            /\ core_ret' = [op |-> "NextArithmeticSharingId", status |-> "ok",
                            value |-> global_arithmetic_sharing_id_]
            /\ arith_log' = Append(arith_log,
                 <<global_arithmetic_sharing_id_, num_of_parallel_values>>)
            /\ UNCHANGED core_abort
  /\ UNCHANGED <<global_gate_id_, global_wire_id_, global_gmw_sharing_id_,
                 gate_id_log, wire_id_log, gmw_log>>
  /\ UNCHANGED <<ndebug, my_id, gateVars, sendVars, queueVars, spVars>>

\* assert(n != 0); old = counter; counter += n; return old
NextArithmeticSharingId(num_of_parallel_values) ==
  /\ ~core_abort
  /\ AllocCalls < MaxAllocCalls
  /\ IF num_of_parallel_values = 0 /\ ~ndebug
       THEN /\ core_abort' = TRUE
            /\ core_ret' = [op |-> "NextArithmeticSharingId", status |-> "abort", value |-> 0]
            /\ UNCHANGED <<global_arithmetic_sharing_id_, arith_log>>
       ELSE /\ global_arithmetic_sharing_id_' =
                 global_arithmetic_sharing_id_ + num_of_parallel_values
            /\ core_ret' = [op |-> "NextArithmeticSharingId", status |-> "ok",
                            value |-> global_arithmetic_sharing_id_]
            /\ arith_log' = Append(arith_log,
                 <<global_arithmetic_sharing_id_, num_of_parallel_values>>)
            /\ UNCHANGED core_abort
  /\ UNCHANGED <<global_gate_id_, global_wire_id_, global_gmw_sharing_id_,
                 gate_id_log, wire_id_log, gmw_log>>
  /\ UNCHANGED <<ndebug, my_id, gateVars, sendVars, queueVars, spVars>>

NextBooleanGMWSharingId(num_of_parallel_values) ==
  /\ ~core_abort
  /\ AllocCalls < MaxAllocCalls
  /\ IF num_of_parallel_values = 0 /\ ~ndebug
       THEN /\ core_abort' = TRUE
            /\ core_ret' = [op |-> "NextBooleanGMWSharingId", status |-> "abort", value |-> 0]
            /\ UNCHANGED <<global_gmw_sharing_id_, gmw_log>>
       ELSE /\ global_gmw_sharing_id_' = global_gmw_sharing_id_ + num_of_parallel_values
            /\ core_ret' = [op |-> "NextBooleanGMWSharingId", status |-> "ok",
                            value |-> global_gmw_sharing_id_]
            /\ gmw_log' = Append(gmw_log, <<global_gmw_sharing_id_, num_of_parallel_values>>)
            /\ UNCHANGED core_abort
  /\ UNCHANGED <<global_gate_id_, global_wire_id_, global_arithmetic_sharing_id_,
                 gate_id_log, wire_id_log, arith_log>>
  /\ UNCHANGED <<ndebug, my_id, gateVars, sendVars, queueVars, spVars>>

\* return global_gate_id_
GetTotalNumOfGates == global_gate_id_

(***************************************************************************)
(* Core: gate table (part_000 lines 67-83).                                *)
(***************************************************************************)
\* assert(gate != nullptr); gates_.push_back(gate)
RegisterNextGate(gate) ==
  /\ ~core_abort
  /\ Len(registered_log) < MaxGates
  /\ IF gate = nullptr /\ ~ndebug
       THEN /\ core_abort' = TRUE
            /\ core_ret' = [op |-> "RegisterNextGate", status |-> "abort", value |-> 0]
            /\ UNCHANGED <<gates_, registered_log>>
       ELSE /\ gates_' = Append(gates_, gate)
            /\ registered_log' = Append(registered_log, gate)
            /\ core_ret' = [op |-> "RegisterNextGate", status |-> "ok", value |-> 0]
            /\ UNCHANGED core_abort
  /\ UNCHANGED <<input_gates_, unregistered>>
  /\ UNCHANGED <<ndebug, my_id, allocVars, sendVars, queueVars, spVars>>

\* RegisterNextGate(gate); assert(gate != nullptr); input_gates_.push_back(gate)
RegisterNextInputGate(gate) ==
  /\ ~core_abort
  /\ Len(registered_log) < MaxGates
  /\ IF gate = nullptr /\ ~ndebug
       THEN /\ core_abort' = TRUE
            /\ core_ret' = [op |-> "RegisterNextInputGate", status |-> "abort", value |-> 0]
            /\ UNCHANGED <<gates_, input_gates_, registered_log>>
       ELSE /\ gates_' = Append(gates_, gate)
            /\ registered_log' = Append(registered_log, gate)
            /\ input_gates_' = Append(input_gates_, gate)
            /\ core_ret' = [op |-> "RegisterNextInputGate", status |-> "ok", value |-> 0]
            /\ UNCHANGED core_abort
  /\ UNCHANGED unregistered
  /\ UNCHANGED <<ndebug, my_id, allocVars, sendVars, queueVars, spVars>>

\* return gates_.at(gate_id)
GetGate(gate_id) ==
  /\ ~core_abort
  /\ core_ret' = IF InRange(gates_, gate_id)
                   THEN [op |-> "GetGate", status |-> "ok", arg |-> gate_id,
                         value |-> At(gates_, gate_id)]
                   ELSE [op |-> "GetGate", status |-> "out_of_range", arg |-> gate_id,
                         value |-> nullptr]
  /\ UNCHANGED <<ndebug, my_id, core_abort, allocVars, gateVars, sendVars, queueVars, spVars>>

\* (mutant) the slot is erased instead of tombstoned
UnregisterGate_erase(gate_id) ==
  /\ ~core_abort
  /\ IF InRange(gates_, gate_id)
       THEN /\ gates_' = SubSeq(gates_, 1, gate_id) \o SubSeq(gates_, gate_id + 2, Len(gates_))
            /\ unregistered' = unregistered \cup {gate_id}
            /\ core_ret' = [op |-> "UnregisterGate", status |-> "ok", value |-> gate_id]
       ELSE /\ core_ret' = [op |-> "UnregisterGate", status |-> "out_of_range",
                            value |-> gate_id]
            /\ UNCHANGED <<gates_, unregistered>>
  /\ UNCHANGED <<input_gates_, registered_log>>
  /\ UNCHANGED <<ndebug, my_id, core_abort, allocVars, sendVars, queueVars, spVars>>

\* gates_.at(gate_id) = nullptr
UnregisterGate(gate_id) ==
  /\ ~core_abort
  /\ IF InRange(gates_, gate_id)
       THEN /\ gates_' = [gates_ EXCEPT ![gate_id + 1] = nullptr]
            /\ unregistered' = unregistered \cup {gate_id}
            /\ core_ret' = [op |-> "UnregisterGate", status |-> "ok", value |-> gate_id]
       ELSE /\ core_ret' = [op |-> "UnregisterGate", status |-> "out_of_range",
                            value |-> gate_id]
            /\ UNCHANGED <<gates_, unregistered>>
  /\ UNCHANGED <<input_gates_, registered_log>>
  /\ UNCHANGED <<ndebug, my_id, core_abort, allocVars, sendVars, queueVars, spVars>>

(***************************************************************************)
(* Core: transport (part_000 lines 55-65).                                 *)
(***************************************************************************)
\* communication_handlers_ = communication_handlers
RegisterCommunicationHandlers(communication_handlers) ==
  /\ ~core_abort
  /\ communication_handlers_' = communication_handlers
  /\ core_ret' = [op |-> "RegisterCommunicationHandlers", status |-> "ok", value |-> 0]
  /\ UNCHANGED <<handler_calls, send_count>>
  /\ UNCHANGED <<ndebug, my_id, core_abort, allocVars, gateVars, queueVars, spVars>>

\* (mutant) the check for a send to oneself is missing
Send_no_self_check(party_id, message) ==
  /\ ~core_abort
  /\ send_count < MaxSends
  /\ send_count' = send_count + 1
  /\ IF ~InRange(communication_handlers_, party_id)
       THEN /\ core_ret' = [op |-> "Send", status |-> "out_of_range", value |-> party_id]
            /\ UNCHANGED <<handler_calls, core_abort>>
       ELSE IF ~At(communication_handlers_, party_id)
         THEN /\ core_ret' = [op |-> "Send", status |-> "abort", value |-> party_id]
              /\ core_abort' = TRUE
              /\ UNCHANGED handler_calls
         ELSE /\ handler_calls' = [handler_calls EXCEPT ![party_id] = Append(@, message)]
              /\ core_ret' = [op |-> "Send", status |-> "ok", value |-> party_id]
              /\ UNCHANGED core_abort
  /\ UNCHANGED communication_handlers_
  /\ UNCHANGED <<ndebug, my_id, allocVars, gateVars, queueVars, spVars>>

\* if (party_id == my_id) throw; communication_handlers_.at(party_id)->SendMessage(message)
\* A null handler pointer is dereferenced: the process dies.
Send(party_id, message) ==
  /\ ~core_abort
  /\ send_count < MaxSends
  /\ send_count' = send_count + 1
  /\ IF party_id = my_id
       THEN /\ core_ret' = [op |-> "Send", status |-> "runtime_error", value |-> party_id]
            /\ UNCHANGED <<handler_calls, core_abort>>
       ELSE IF ~InRange(communication_handlers_, party_id)
         THEN /\ core_ret' = [op |-> "Send", status |-> "out_of_range", value |-> party_id]
              /\ UNCHANGED <<handler_calls, core_abort>>
         ELSE IF ~At(communication_handlers_, party_id)
           THEN /\ core_ret' = [op |-> "Send", status |-> "abort", value |-> party_id]
                /\ core_abort' = TRUE
                /\ UNCHANGED handler_calls
           ELSE /\ handler_calls' =
                     [handler_calls EXCEPT ![party_id] = Append(@, message)]
                /\ core_ret' = [op |-> "Send", status |-> "ok", value |-> party_id]
                /\ UNCHANGED core_abort
  /\ UNCHANGED communication_handlers_
  /\ UNCHANGED <<ndebug, my_id, allocVars, gateVars, queueVars, spVars>>

(***************************************************************************)
(* Core: active queue (part_000 lines 91-107, 125-126).                    *)
(*                                                                          *)
(* Producers and consumers are threads; one action is one statement of the  *)
(* thread's call.  Reads of the queue that the code makes without the mutex *)
(* (size(), front()) are steps of their own: they interleave with the       *)
(* critical sections of the other threads and see the queue either before   *)
(* or after the other thread's write.  front() and pop() on an empty        *)
(* std::queue are undefined: front() yields an indeterminate value, pop()   *)
(* either aborts (hardened library), leaves the queue empty, or corrupts    *)
(* the container; what a corrupted container does next is not modelled.     *)
(***************************************************************************)
Producers == 1 .. NumProducers
Consumers == NumProducers + 1 .. NumProducers + NumConsumers
Threads == Producers \cup Consumers
Free == 0                                     \* the mutex is not held
\* the id a producer passes on its k-th call (k = 0, 1, ...): all distinct
GateIdOf(p, k) == (p - 1) + NumProducers * k
PushableIds == {GateIdOf(p, k) : p \in Producers, k \in 0 .. MaxPushes - 1}
\* values an indeterminate read may yield: any pushable id, or one never pushed
IndeterminateIds == 0 .. NumProducers * MaxPushes
QueueRunning == ~queue_abort /\ ~queue_corrupt

RECURSIVE SumOver(_, _)
SumOver(f, S) == IF S = {} THEN 0
                 ELSE LET x == CHOOSE y \in S : TRUE IN f[x] + SumOver(f, S \ {x})
\* pops that returned an id so far
NumReturned == SumOver(popped, IndeterminateIds)

\* active_gates_.size() as the caller sees it
QueueSize == Len(active_gates_)

\* AddToActiveQueue, line 92: std::scoped_lock lock(active_queue_mutex_)
AddToActiveQueue_lock(p) ==
  /\ QueueRunning
  /\ qpc[p] = "idle"
  /\ npush[p] < MaxPushes
  /\ active_queue_mutex_ = Free
  /\ active_queue_mutex_' = p
  /\ qlocal' = [qlocal EXCEPT ![p] = GateIdOf(p, npush[p])]
  /\ qpc' = [qpc EXCEPT ![p] = "push"]
  /\ UNCHANGED <<active_gates_, queue_corrupt, queue_abort, qret, npush, pushed, popped,
                 pop_on_empty>>
  /\ UNCHANGED <<coreVars, allocVars, gateVars, sendVars, spVars>>

\* AddToActiveQueue, line 93: active_gates_.push(gate_id)
AddToActiveQueue_push(p) ==
  /\ QueueRunning
  /\ qpc[p] = "push"
  /\ active_gates_' = Append(active_gates_, qlocal[p])
  /\ pushed' = pushed \cup {qlocal[p]}
  /\ npush' = [npush EXCEPT ![p] = @ + 1]
  /\ qpc' = [qpc EXCEPT ![p] = "unlock"]
  /\ UNCHANGED <<active_queue_mutex_, queue_corrupt, queue_abort, qlocal, qret, popped,
                 pop_on_empty>>
  /\ UNCHANGED <<coreVars, allocVars, gateVars, sendVars, spVars>>

\* AddToActiveQueue, lines 94-95: the trace line, then the lock is released
AddToActiveQueue_unlock(p) ==
  /\ QueueRunning
  /\ qpc[p] = "unlock"
  /\ active_queue_mutex_' = Free
  /\ qlocal' = [qlocal EXCEPT ![p] = 0]
  /\ qpc' = [qpc EXCEPT ![p] = "idle"]
  /\ UNCHANGED <<active_gates_, queue_corrupt, queue_abort, qret, npush, pushed,
                 popped, pop_on_empty>>
  /\ UNCHANGED <<coreVars, allocVars, gateVars, sendVars, spVars>>

\* AddToActiveQueue, lines 91-95, called by a thread that is not interleaved
\* with another queue call: the lock is taken, gate_id is pushed, the trace
\* line is written and the lock is released.  gates_ is not read.
AddToActiveQueue(gate_id) ==
  /\ QueueRunning
  /\ ~core_abort
  /\ \A t \in Threads : qpc[t] = "idle"
  /\ active_queue_mutex_ = Free
  /\ Len(active_gates_) < MaxPushes
  /\ active_gates_' = Append(active_gates_, gate_id)
  /\ pushed' = pushed \cup {gate_id}
  /\ UNCHANGED <<active_queue_mutex_, queue_corrupt, queue_abort, qpc, qlocal, qret,
                 npush, popped, pop_on_empty>>
  /\ UNCHANGED <<coreVars, allocVars, gateVars, sendVars, spVars>>

\* GetNextGateFromOnlineQueue, lines 98-99: if (active_gates_.size() == 0) return -1
\* (no lock is held)
GetNextGate_size(c) ==
  /\ QueueRunning
  /\ qpc[c] = "idle"
  /\ NumReturned <= NumProducers * MaxPushes
  /\ IF QueueSize = 0
       THEN /\ qret' = [qret EXCEPT ![c] = Sentinel]
            /\ UNCHANGED qpc
       ELSE /\ qpc' = [qpc EXCEPT ![c] = "front"]
            /\ UNCHANGED qret
  /\ UNCHANGED <<active_gates_, active_queue_mutex_, queue_corrupt, queue_abort, qlocal,
                 npush, pushed, popped, pop_on_empty>>
  /\ UNCHANGED <<coreVars, allocVars, gateVars, sendVars, spVars>>

\* GetNextGateFromOnlineQueue, line 101: auto gate_id = active_gates_.front()
\* (no lock is held; the queue may have been emptied since the size check)
GetNextGate_front(c) ==
  /\ QueueRunning
  /\ qpc[c] = "front"
  /\ IF Len(active_gates_) > 0
       THEN qlocal' = [qlocal EXCEPT ![c] = Head(active_gates_)]
       ELSE \E g \in IndeterminateIds : qlocal' = [qlocal EXCEPT ![c] = g]
  /\ qpc' = [qpc EXCEPT ![c] = "lock"]
  /\ UNCHANGED <<active_gates_, active_queue_mutex_, queue_corrupt, queue_abort, qret,
                 npush, pushed, popped, pop_on_empty>>
  /\ UNCHANGED <<coreVars, allocVars, gateVars, sendVars, spVars>>

\* GetNextGateFromOnlineQueue, line 103: std::scoped_lock lock(active_queue_mutex_)
GetNextGate_lock(c) ==
  /\ QueueRunning
  /\ qpc[c] = "lock"
  /\ active_queue_mutex_ = Free
  /\ active_queue_mutex_' = c
  /\ qpc' = [qpc EXCEPT ![c] = "pop"]
  /\ UNCHANGED <<active_gates_, queue_corrupt, queue_abort, qlocal, qret, npush, pushed,
                 popped, pop_on_empty>>
  /\ UNCHANGED <<coreVars, allocVars, gateVars, sendVars, spVars>>

\* GetNextGateFromOnlineQueue, line 104: active_gates_.pop()
GetNextGate_pop(c) ==
  /\ QueueRunning
  /\ qpc[c] = "pop"
  /\ IF Len(active_gates_) > 0
       THEN /\ active_gates_' = Tail(active_gates_)
            /\ qpc' = [qpc EXCEPT ![c] = "return"]
            /\ UNCHANGED <<queue_corrupt, queue_abort, pop_on_empty>>
       ELSE /\ pop_on_empty' = TRUE
            /\ UNCHANGED active_gates_
            /\ \/ /\ queue_abort' = TRUE
                  /\ UNCHANGED <<queue_corrupt, qpc>>
               \/ /\ qpc' = [qpc EXCEPT ![c] = "return"]
                  /\ UNCHANGED <<queue_corrupt, queue_abort>>
               \/ /\ queue_corrupt' = TRUE
                  /\ UNCHANGED <<queue_abort, qpc>>
  /\ UNCHANGED <<active_queue_mutex_, qlocal, qret, npush, pushed, popped>>
  /\ UNCHANGED <<coreVars, allocVars, gateVars, sendVars, spVars>>

\* GetNextGateFromOnlineQueue, lines 105-106: return gate_id; the lock is released
GetNextGate_return(c) ==
  /\ QueueRunning
  /\ qpc[c] = "return"
  /\ active_queue_mutex_' = Free
  /\ qret' = [qret EXCEPT ![c] = qlocal[c]]
  /\ popped' = [popped EXCEPT ![qlocal[c]] = @ + 1]
  /\ qlocal' = [qlocal EXCEPT ![c] = 0]
  /\ qpc' = [qpc EXCEPT ![c] = "idle"]
  /\ UNCHANGED <<active_gates_, queue_corrupt, queue_abort, npush, pushed,
                 pop_on_empty>>
  /\ UNCHANGED <<coreVars, allocVars, gateVars, sendVars, spVars>>

(***************************************************************************)
(* Initial state: a Core just constructed (part_000 lines 28-31, 116-133). *)
(***************************************************************************)
InitCore ==
  /\ core_abort = FALSE
  /\ core_ret = NoRet
  /\ global_gate_id_ = 0 /\ global_wire_id_ = 0
  /\ global_arithmetic_sharing_id_ = 0 /\ global_gmw_sharing_id_ = 0
  /\ gate_id_log = <<>> /\ wire_id_log = <<>> /\ arith_log = <<>> /\ gmw_log = <<>>
  /\ gates_ = <<>> /\ input_gates_ = <<>>
  /\ registered_log = <<>> /\ unregistered = {}
  /\ communication_handlers_ = <<>>
  /\ handler_calls = [i \in PartyIds |-> <<>>]
  /\ send_count = 0
  /\ active_gates_ = <<>>
  /\ active_queue_mutex_ = Free
  /\ queue_corrupt = FALSE /\ queue_abort = FALSE
  /\ qpc = [t \in Threads |-> "idle"]
  /\ qlocal = [t \in Threads |-> 0]
  /\ qret = [t \in Threads |-> Sentinel]
  /\ npush = [p \in Producers |-> 0]
  /\ pushed = {} /\ popped = [g \in IndeterminateIds |-> 0]
  /\ pop_on_empty = FALSE

\* no provider exists in the runs of Core
InitNoProvider ==
  /\ num_parties = 0 /\ number_of_sps = <<>> /\ full_random = FALSE
  /\ need_ret = <<>>
  /\ sps_a = <<>> /\ sps_c = <<>> /\ ots_sender_ = <<>> /\ ots_receiver_ = <<>>
  /\ ot_send = <<>> /\ ot_recv = <<>> /\ parse_log = <<>>
  /\ sp_pc = <<>> /\ sp_workers = <<>> /\ sp_next_peer = <<>> /\ sp_hist = <<>>
  /\ sp_result = <<>> /\ sp_log = <<>> /\ run_time_statistics_ = <<>>
  /\ finished_ = <<>> /\ cond_mutex = <<>> /\ notify_count = <<>> /\ wpc = <<>>


(***************************************************************************)
(* Specifications, one per part of the program.                             *)
(***************************************************************************)
\* the allocators, called from the single build thread
NextAlloc ==
  \/ NextGateId
  \/ NextWireId
  \/ \E n \in 0 .. MaxParallel : NextArithmeticSharingId(n)
  \/ \E n \in 0 .. MaxParallel : NextBooleanGMWSharingId(n)

InitAlloc == InitCore /\ ndebug \in BOOLEAN /\ my_id = 0 /\ InitNoProvider

SpecAlloc == InitAlloc /\ [][NextAlloc]_vars

\* the gate table, called from the single build thread
NextGates ==
  \/ \E g \in GatePtrs : RegisterNextGate(g)
  \/ \E g \in GatePtrs : RegisterNextInputGate(g)
  \/ \E i \in 0 .. MaxGates : GetGate(i)
  \/ \E i \in 0 .. MaxGates : UnregisterGate(i)

InitGates == InitCore /\ ndebug \in BOOLEAN /\ my_id = 0 /\ InitNoProvider

SpecGates == InitGates /\ [][NextGates]_vars

\* the transport table
HandlerTables == UNION {[1 .. n -> BOOLEAN] : n \in {NumHandlers - 1, NumHandlers}}

NextSend ==
  \/ \E h \in HandlerTables : RegisterCommunicationHandlers(h)
  \/ \E i \in 0 .. NumHandlers, m \in Messages : Send(i, m)

InitSend == InitCore /\ ndebug = TRUE /\ my_id \in PartyIds /\ InitNoProvider

SpecSend == InitSend /\ [][NextSend]_vars

\* the active queue, called from producer and consumer threads
NextQueue ==
  \/ \E p \in Producers : AddToActiveQueue_lock(p)
  \/ \E p \in Producers : AddToActiveQueue_push(p)
  \/ \E p \in Producers : AddToActiveQueue_unlock(p)
  \/ \E c \in Consumers : GetNextGate_size(c)
  \/ \E c \in Consumers : GetNextGate_front(c)
  \/ \E c \in Consumers : GetNextGate_lock(c)
  \/ \E c \in Consumers : GetNextGate_pop(c)
  \/ \E c \in Consumers : GetNextGate_return(c)

InitQueue == InitCore /\ ndebug = TRUE /\ my_id = 0 /\ InitNoProvider

SpecQueue == InitQueue /\ [][NextQueue]_vars

\* the gate table and the active queue, called from one thread
NextLive ==
  \/ \E g \in GatePtrs : RegisterNextGate(g)
  \/ \E i \in 0 .. MaxGates : UnregisterGate(i)
  \/ \E i \in 0 .. MaxGates : AddToActiveQueue(i)

InitLive == InitCore /\ ndebug \in BOOLEAN /\ my_id = 0 /\ InitNoProvider

SpecLive == InitLive /\ [][NextLive]_vars

(***************************************************************************)
(* Square-pair provider (sp_provider.cpp): values and pure helpers.         *)
(*                                                                          *)
(* The five instantiations of each helper template differ only in           *)
(* bit_size = sizeof(T) * 8.  The model instantiates the same templates at  *)
(* bit sizes small enough to enumerate every value; arithmetic on T is      *)
(* arithmetic modulo 2^bit_size.                                            *)
(***************************************************************************)
kBitSizes == <<2, 3>>                 \* sizeof(T) * 8 of each instantiation, in call order
Widths == 1 .. Len(kBitSizes)
bit_size(w) == kBitSizes[w]
Parties == 0 .. num_parties - 1
Peers(p) == Parties \ {p}
SetupThread == NumWaiters + 1         \* the thread running Setup, as a mutex holder

RECURSIVE Pow2(_)
Pow2(n) == IF n = 0 THEN 1 ELSE 2 * Pow2(n - 1)
Min(x, y) == IF x < y THEN x ELSE y

\* T(x << k)
ShiftLeft(x, k, W) == (x * Pow2(k)) % Pow2(W)
\* (x >> k) & 1
BitAt(x, k) == (x \div Pow2(k)) % 2
\* BitVector<>(reinterpret_cast<const std::byte*>(&x), W): bit k of x at position k
ToBitVector(x, W) == [k \in 1 .. W |-> BitAt(x, k - 1)]
\* *reinterpret_cast<const T*>(v.GetData().data())
RECURSIVE FromBitVectorFrom(_, _)
FromBitVectorFrom(v, k) ==
  IF k > Len(v) THEN 0 ELSE v[k] * Pow2(k - 1) + FromBitVectorFrom(v, k + 1)
FromBitVector(v) == FromBitVectorFrom(v, 1)

RECURSIVE SumSeq(_, _)
SumSeq(s, k) == IF k > Len(s) THEN 0 ELSE s[k] + SumSeq(s, k + 1)

\* SpProvider::NeedSps, lines 33-36: the sum is a std::size_t sum
NeedSpsOf(counts) == 0 < SumSeq(counts, 1) % Pow2(SizeBits)
NeedSps == NeedSpsOf(number_of_sps)

\* what RandomVector<T>(n) may return
RandomValues(W) == IF full_random THEN 0 .. Pow2(W) - 1 ELSE {Pow2(W) - 1}
RandomVectors(W, n) == [1 .. n -> RandomValues(W)]
\* the random masks an OT hands its sender: entry e is seed + e
MaskSeeds == IF full_random THEN 0 .. 3 ELSE {1}
MaskVector(seed, W, n) == [e \in 1 .. n |-> (seed + e) % Pow2(W)]

\* GenerateRandomPairs<T>, lines 107-115, with random_vector what RandomVector returns
GenerateRandomPairs(sps, number_of, W, random_vector) ==
  IF number_of > 0
    THEN [a |-> random_vector,
          c |-> [k \in 1 .. number_of |-> (random_vector[k] * random_vector[k]) % Pow2(W)]]
    ELSE sps

\* (mutant) one OT for all pairs of a width, whatever max_batch_size is
RegisterHelperSend_unbatched(st, max_batch_size, a, number_of, w, sp_id) ==
  IF sp_id >= number_of THEN st
  ELSE LET W == bit_size(w)
           batch_size == number_of - sp_id
           vector_to_send == [e \in 1 .. batch_size * W |->
              ToBitVector(ShiftLeft(a[sp_id + ((e - 1) \div W) + 1], (e - 1) % W, W), W)]
           ot_to_send == [w |-> w, bit_size |-> W, n_ots |-> batch_size * W,
                          sp_id |-> sp_id, inputs |-> vector_to_send,
                          sent |-> FALSE, mask |-> <<>>]
       IN [provider |-> Append(st.provider, ot_to_send),
           list |-> Append(st.list, Len(st.provider) + 1)]

\* RegisterHelperSend<T>, lines 117-139, from sp_id on.  st.provider is the OT
\* provider of the peer (the sender OTs registered so far), st.list is ots_sender;
\* a handle is the position of its OT object at the provider.
RECURSIVE RegisterHelperSend(_, _, _, _, _, _)
RegisterHelperSend(st, max_batch_size, a, number_of, w, sp_id) ==
  IF sp_id >= number_of THEN st
  ELSE LET W == bit_size(w)
           batch_size == Min(max_batch_size, number_of - sp_id)
           vector_to_send == [e \in 1 .. batch_size * W |->
              ToBitVector(ShiftLeft(a[sp_id + ((e - 1) \div W) + 1], (e - 1) % W, W), W)]
           ot_to_send == [w |-> w, bit_size |-> W, n_ots |-> batch_size * W,
                          sp_id |-> sp_id, inputs |-> vector_to_send,
                          sent |-> FALSE, mask |-> <<>>]
       IN RegisterHelperSend(
            [provider |-> Append(st.provider, ot_to_send),
             list |-> Append(st.list, Len(st.provider) + 1)],
            max_batch_size, a, number_of, w, sp_id + batch_size)

\* RegisterHelperReceptor<T>, lines 141-163, from sp_id on
RECURSIVE RegisterHelperReceptor(_, _, _, _, _, _)
RegisterHelperReceptor(st, max_batch_size, a, number_of, w, sp_id) ==
  IF sp_id >= number_of THEN st
  ELSE LET W == bit_size(w)
           batch_size == Min(max_batch_size, number_of - sp_id)
           choices == [e \in 1 .. batch_size * W |->
              BitAt(a[sp_id + ((e - 1) \div W) + 1], (e - 1) % W)]
           ot_to_receive == [w |-> w, bit_size |-> W, n_ots |-> batch_size * W,
                             sp_id |-> sp_id, choices |-> choices, sent |-> FALSE]
       IN RegisterHelperReceptor(
            [provider |-> Append(st.provider, ot_to_receive),
             list |-> Append(st.list, Len(st.provider) + 1)],
            max_batch_size, a, number_of, w, sp_id + batch_size)

\* RegisterOts, lines 179-188: the RegisterHelperSend calls for one peer, width by width
RECURSIVE RegisterSendWidths(_, _, _)
RegisterSendWidths(st, a_of, w) ==
  IF w > Len(kBitSizes) THEN st
  ELSE RegisterSendWidths(
         RegisterHelperSend(st, kMaxBatchSize, a_of[w], number_of_sps[w], w, 0), a_of, w + 1)

\* (mutant) the receiver side registers the widths in the opposite order
RECURSIVE RegisterReceiveWidths_reversed(_, _, _)
RegisterReceiveWidths_reversed(st, a_of, w) ==
  IF w > Len(kBitSizes) THEN st
  ELSE LET v == Len(kBitSizes) + 1 - w
       IN RegisterReceiveWidths_reversed(
            RegisterHelperReceptor(st, kMaxBatchSize, a_of[v], number_of_sps[v], v, 0),
            a_of, w + 1)

\* RegisterOts, lines 190-199: the RegisterHelperReceptor calls for one peer
RECURSIVE RegisterReceiveWidths(_, _, _)
RegisterReceiveWidths(st, a_of, w) ==
  IF w > Len(kBitSizes) THEN st
  ELSE RegisterReceiveWidths(
         RegisterHelperReceptor(st, kMaxBatchSize, a_of[w], number_of_sps[w], w, 0),
         a_of, w + 1)

(***************************************************************************)
(* The OT layer: an ideal additive-correlated OT.  The k-th sender OT that  *)
(* party s registered towards r and the k-th receiver OT that r registered  *)
(* towards s are the two ends of one OT.  The sender's output e is a random *)
(* mask m; the receiver's output e is m + input e if its choice bit e is 1, *)
(* else m (modulo 2^bit_size).  GetOutputs blocks until both ends have sent.*)
(***************************************************************************)
OtComplete(s, r, h) ==
  /\ h <= Len(ot_send[s][r]) /\ h <= Len(ot_recv[r][s])
  /\ ot_send[s][r][h].sent /\ ot_recv[r][s][h].sent
  /\ ot_send[s][r][h].n_ots = ot_recv[r][s][h].n_ots
  /\ ot_send[s][r][h].bit_size = ot_recv[r][s][h].bit_size

\* OtVectorSender::GetOutputs of handle h of sender s towards r
SenderOutputs(s, r, h) ==
  LET ot == ot_send[s][r][h]
  IN [e \in 1 .. ot.n_ots |-> ToBitVector(ot.mask[e], ot.bit_size)]

\* OtVectorReceiver::GetOutputs of handle h of receiver r from s
ReceiverOutputs(r, s, h) ==
  LET snd == ot_send[s][r][h]
      rcv == ot_recv[r][s][h]
  IN [e \in 1 .. rcv.n_ots |->
        ToBitVector((snd.mask[e] + rcv.choices[e] * FromBitVector(snd.inputs[e]))
                      % Pow2(rcv.bit_size), rcv.bit_size)]

(***************************************************************************)
(* ParseOutputs and its helpers, lines 204-271.                             *)
(*                                                                          *)
(* The state st of a parse is [list, c, applied, status]: the handle list,  *)
(* the c vector of each width, the handles consumed so far with the batch   *)
(* each was applied to, and "ok", "out_of_range" (an at() threw) or "ub"    *)
(* (front() of an empty std::list was used).  sign is -1 in ParseHelperSend *)
(* and +1 in ParseHelperReceive.                                           *)
(***************************************************************************)
\* lines 214-219 / 235-240: entries e, e+1, ... of one batch, in loop order
RECURSIVE ApplyOutputs(_, _, _, _, _, _, _)
ApplyOutputs(st, w, sp_id, batch_size, output, sign, e) ==
  IF e >= batch_size * bit_size(w) THEN st
  ELSE LET j == e \div bit_size(w)
       IN IF e >= Len(output) \/ sp_id + j >= Len(st.c[w])
            THEN [st EXCEPT !.status = "out_of_range"]
            ELSE ApplyOutputs(
                   [st EXCEPT !.c[w][sp_id + j + 1] =
                      (@ + sign * 2 * FromBitVector(output[e + 1])) % Pow2(bit_size(w))],
                   w, sp_id, batch_size, output, sign, e + 1)

\* (mutant) the handle is taken from the back of the list
RECURSIVE ParseHelper_back(_, _, _, _, _, _, _)
ParseHelper_back(st, max_batch_size, number_of, w, sp_id, sign, outputs) ==
  IF st.status # "ok" \/ sp_id >= number_of THEN st
  ELSE LET batch_size == Min(max_batch_size, number_of - sp_id)
       IN IF st.list = <<>>
            THEN [st EXCEPT !.status = "ub"]
            ELSE LET h == st.list[Len(st.list)]
                     done == ApplyOutputs(st, w, sp_id, batch_size, outputs[h], sign, 0)
                 IN IF done.status # "ok" THEN done
                    ELSE ParseHelper_back(
                           [done EXCEPT !.list = SubSeq(@, 1, Len(@) - 1),
                                        !.applied = Append(@, [handle |-> h, w |-> w,
                                                      sp_id |-> sp_id, batch |-> batch_size])],
                           max_batch_size, number_of, w, sp_id + batch_size, sign, outputs)

\* (mutant) the helper reads the front handle and leaves it in the list
RECURSIVE ParseHelper_keep(_, _, _, _, _, _, _)
ParseHelper_keep(st, max_batch_size, number_of, w, sp_id, sign, outputs) ==
  IF st.status # "ok" \/ sp_id >= number_of THEN st
  ELSE LET batch_size == Min(max_batch_size, number_of - sp_id)
       IN IF st.list = <<>>
            THEN [st EXCEPT !.status = "ub"]
            ELSE LET h == Head(st.list)
                     done == ApplyOutputs(st, w, sp_id, batch_size, outputs[h], sign, 0)
                 IN IF done.status # "ok" THEN done
                    ELSE ParseHelper_keep(
                           [done EXCEPT !.applied = Append(@, [handle |-> h, w |-> w,
                                                      sp_id |-> sp_id, batch |-> batch_size])],
                           max_batch_size, number_of, w, sp_id + batch_size, sign, outputs)

\* ParseHelperSend<T> (sign = -1), lines 204-223, and ParseHelperReceive<T>
\* (sign = +1), lines 225-244, from sp_id on; outputs[h] is what GetOutputs of
\* handle h returns
RECURSIVE ParseHelper(_, _, _, _, _, _, _)
ParseHelper(st, max_batch_size, number_of, w, sp_id, sign, outputs) ==
  IF st.status # "ok" \/ sp_id >= number_of THEN st
  ELSE LET batch_size == Min(max_batch_size, number_of - sp_id)
       IN IF st.list = <<>>
            THEN [st EXCEPT !.status = "ub"]
            ELSE LET h == Head(st.list)
                     done == ApplyOutputs(st, w, sp_id, batch_size, outputs[h], sign, 0)
                 IN IF done.status # "ok" THEN done
                    ELSE ParseHelper(
                           [done EXCEPT !.list = Tail(@),
                                        !.applied = Append(@, [handle |-> h, w |-> w,
                                                      sp_id |-> sp_id, batch |-> batch_size])],
                           max_batch_size, number_of, w, sp_id + batch_size, sign, outputs)

\* (mutant) the sender side adds where it has to subtract
ParseHelperSend_plus(st, max_batch_size, number_of, w, outputs) ==
  ParseHelper(st, max_batch_size, number_of, w, 0, 1, outputs)

ParseHelperSend(st, max_batch_size, number_of, w, outputs) ==
  ParseHelper(st, max_batch_size, number_of, w, 0, 0 - 1, outputs)

ParseHelperReceive(st, max_batch_size, number_of, w, outputs) ==
  ParseHelper(st, max_batch_size, number_of, w, 0, 1, outputs)

\* ParseOutputs, lines 252-269: the helper calls for one peer, width by width
RECURSIVE ParseWidths(_, _, _, _)
ParseWidths(st, is_sender, outputs, w) ==
  IF w > Len(kBitSizes) THEN st
  ELSE ParseWidths(
         IF is_sender
           THEN ParseHelperSend(st, kMaxBatchSize, number_of_sps[w], w, outputs)
           ELSE ParseHelperReceive(st, kMaxBatchSize, number_of_sps[w], w, outputs),
         is_sender, outputs, w + 1)

\* the batches ParseOutputs expects for one peer: ceil(n / kMaxBatchSize) per width
RECURSIVE ExpectedBatches(_)
ExpectedBatches(w) ==
  IF w > Len(kBitSizes) THEN 0
  ELSE (number_of_sps[w] + kMaxBatchSize - 1) \div kMaxBatchSize + ExpectedBatches(w + 1)

(***************************************************************************)
(* SpProviderFromOts: one provider per party, each driven by its own        *)
(* thread.  sp_pc[p] is the position of party p's thread:                    *)
(*   "idle"       between calls                                             *)
(*   "register"   PreSetup, in the parallel loop of RegisterOts             *)
(*   "presetup_end"  PreSetup, before RecordEnd                             *)
(*   "send"       Setup, in the parallel loop of lines 81-92                *)
(*   "parse"      Setup, in ParseOutputs                                    *)
(*   "lock", "set", "notify", "end"   Setup, lines 96, 97-98, 99, 101       *)
(*   "failed"     the call threw to its caller                              *)
(*   "terminated" std::terminate was called                                 *)
(*   "crashed"    the process died on undefined behaviour                   *)
(* sp_hist[p] is the calls made on party p's provider and sp_result[p] how  *)
(* each ended; sp_log[p] is what the last Setup call did.                   *)
(***************************************************************************)
\* the peers ParseOutputs still has to visit, lowest first
NextPeer(p, from) ==
  LET later == {i \in Parties : i >= from /\ i # p}
  IN IF later = {} THEN num_parties
     ELSE CHOOSE i \in later : \A k \in later : i <= k

\* (mutant) PreSetup does not look at NeedSps
PreSetup_begin_unchecked(p) ==
  /\ sp_pc[p] = "idle"
  /\ Len(sp_hist[p]) < MaxSpCalls
  /\ sp_hist' = [sp_hist EXCEPT ![p] = Append(@, "PreSetup")]
  /\ run_time_statistics_' =
       [run_time_statistics_ EXCEPT ![p] = Append(@, "kSpPresetup start")]
  /\ \E r1 \in RandomVectors(bit_size(1), number_of_sps[1]),
        r2 \in RandomVectors(bit_size(2), number_of_sps[2]) :
       LET random_vector == <<r1, r2>>
           pairs == [w \in Widths |->
              GenerateRandomPairs([a |-> sps_a[p][w], c |-> sps_c[p][w]],
                                  number_of_sps[w], bit_size(w), random_vector[w])]
       IN /\ sps_a' = [sps_a EXCEPT ![p] = [w \in Widths |-> pairs[w].a]]
          /\ sps_c' = [sps_c EXCEPT ![p] = [w \in Widths |-> pairs[w].c]]
  /\ sp_pc' = [sp_pc EXCEPT ![p] = "register"]
  /\ sp_workers' = [sp_workers EXCEPT ![p] = Peers(p)]
  /\ UNCHANGED sp_result
  /\ UNCHANGED <<ots_sender_, ots_receiver_, ot_send, ot_recv, parse_log,
                 sp_next_peer, sp_log, spCond, spConfig, registryVars>>

\* PreSetup, lines 53-61, and RegisterOts, lines 166-170
PreSetup_begin(p) ==
  /\ sp_pc[p] = "idle"
  /\ Len(sp_hist[p]) < MaxSpCalls
  /\ sp_hist' = [sp_hist EXCEPT ![p] = Append(@, "PreSetup")]
  /\ IF ~NeedSps
       THEN /\ sp_result' = [sp_result EXCEPT ![p] = Append(@, "returned")]
            /\ UNCHANGED <<sps_a, sps_c, run_time_statistics_, sp_pc, sp_workers>>
       ELSE /\ run_time_statistics_' =
                 [run_time_statistics_ EXCEPT ![p] = Append(@, "kSpPresetup start")]
            /\ \E r1 \in RandomVectors(bit_size(1), number_of_sps[1]),
                  r2 \in RandomVectors(bit_size(2), number_of_sps[2]) :
                 LET random_vector == <<r1, r2>>
                     pairs == [w \in Widths |->
                        GenerateRandomPairs([a |-> sps_a[p][w], c |-> sps_c[p][w]],
                                            number_of_sps[w], bit_size(w), random_vector[w])]
                 IN /\ sps_a' = [sps_a EXCEPT ![p] = [w \in Widths |-> pairs[w].a]]
                    /\ sps_c' = [sps_c EXCEPT ![p] = [w \in Widths |-> pairs[w].c]]
            /\ sp_pc' = [sp_pc EXCEPT ![p] = "register"]
            /\ sp_workers' = [sp_workers EXCEPT ![p] = Peers(p)]
            /\ UNCHANGED sp_result
  /\ UNCHANGED <<ots_sender_, ots_receiver_, ot_send, ot_recv, parse_log,
                 sp_next_peer, sp_log, spCond, spConfig, registryVars>>

\* (mutant) the roles are the other way round: sender towards higher ids
RegisterOts_worker_swapped(p, i) ==
  /\ sp_pc[p] = "register"
  /\ i \in sp_workers[p]
  /\ IF i > p
       THEN LET st == RegisterSendWidths(
                        [provider |-> ot_send[p][i], list |-> ots_sender_[p][i]],
                        sps_a[p], 1)
            IN /\ ot_send' = [ot_send EXCEPT ![p][i] = st.provider]
               /\ ots_sender_' = [ots_sender_ EXCEPT ![p][i] = st.list]
               /\ UNCHANGED <<ot_recv, ots_receiver_>>
       ELSE LET st == RegisterReceiveWidths(
                        [provider |-> ot_recv[p][i], list |-> ots_receiver_[p][i]],
                        sps_a[p], 1)
            IN /\ ot_recv' = [ot_recv EXCEPT ![p][i] = st.provider]
               /\ ots_receiver_' = [ots_receiver_ EXCEPT ![p][i] = st.list]
               /\ UNCHANGED <<ot_send, ots_sender_>>
  /\ sp_workers' = [sp_workers EXCEPT ![p] = @ \ {i}]
  /\ sp_pc' = [sp_pc EXCEPT ![p] = IF sp_workers[p] = {i} THEN "presetup_end" ELSE @]
  /\ UNCHANGED <<sps_a, sps_c, parse_log, sp_next_peer, sp_hist, sp_result, sp_log,
                 run_time_statistics_, spCond, spConfig, registryVars>>

\* (mutant) every worker registers into the lists and the provider of peer 0
RegisterOts_worker_shared(p, i) ==
  /\ sp_pc[p] = "register"
  /\ i \in sp_workers[p]
  /\ IF i < p
       THEN LET st == RegisterSendWidths(
                        [provider |-> ot_send[p][0], list |-> ots_sender_[p][0]],
                        sps_a[p], 1)
            IN /\ ot_send' = [ot_send EXCEPT ![p][0] = st.provider]
               /\ ots_sender_' = [ots_sender_ EXCEPT ![p][0] = st.list]
               /\ UNCHANGED <<ot_recv, ots_receiver_>>
       ELSE LET st == RegisterReceiveWidths(
                        [provider |-> ot_recv[p][0], list |-> ots_receiver_[p][0]],
                        sps_a[p], 1)
            IN /\ ot_recv' = [ot_recv EXCEPT ![p][0] = st.provider]
               /\ ots_receiver_' = [ots_receiver_ EXCEPT ![p][0] = st.list]
               /\ UNCHANGED <<ot_send, ots_sender_>>
  /\ sp_workers' = [sp_workers EXCEPT ![p] = @ \ {i}]
  /\ sp_pc' = [sp_pc EXCEPT ![p] = IF sp_workers[p] = {i} THEN "presetup_end" ELSE @]
  /\ UNCHANGED <<sps_a, sps_c, parse_log, sp_next_peer, sp_hist, sp_result, sp_log,
                 run_time_statistics_, spCond, spConfig, registryVars>>

\* RegisterOts, lines 172-201: the iteration of the parallel loop for peer i
RegisterOts_worker(p, i) ==
  /\ sp_pc[p] = "register"
  /\ i \in sp_workers[p]
  /\ IF i < p
       THEN LET st == RegisterSendWidths(
                        [provider |-> ot_send[p][i], list |-> ots_sender_[p][i]],
                        sps_a[p], 1)
            IN /\ ot_send' = [ot_send EXCEPT ![p][i] = st.provider]
               /\ ots_sender_' = [ots_sender_ EXCEPT ![p][i] = st.list]
               /\ UNCHANGED <<ot_recv, ots_receiver_>>
       ELSE LET st == RegisterReceiveWidths(
                        [provider |-> ot_recv[p][i], list |-> ots_receiver_[p][i]],
                        sps_a[p], 1)
            IN /\ ot_recv' = [ot_recv EXCEPT ![p][i] = st.provider]
               /\ ots_receiver_' = [ots_receiver_ EXCEPT ![p][i] = st.list]
               /\ UNCHANGED <<ot_send, ots_sender_>>
  /\ sp_workers' = [sp_workers EXCEPT ![p] = @ \ {i}]
  /\ sp_pc' = [sp_pc EXCEPT ![p] = IF sp_workers[p] = {i} THEN "presetup_end" ELSE @]
  /\ UNCHANGED <<sps_a, sps_c, parse_log, sp_next_peer, sp_hist, sp_result, sp_log,
                 run_time_statistics_, spCond, spConfig, registryVars>>

\* (mutant) PreSetup zeroes the request counts once the OTs are registered
PreSetup_end_clears_counts(p) ==
  /\ sp_pc[p] = "presetup_end"
  /\ run_time_statistics_' =
       [run_time_statistics_ EXCEPT ![p] = Append(@, "kSpPresetup end")]
  /\ sp_result' = [sp_result EXCEPT ![p] = Append(@, "returned")]
  /\ sp_pc' = [sp_pc EXCEPT ![p] = "idle"]
  /\ number_of_sps' = [w \in DOMAIN number_of_sps |-> 0]
  /\ UNCHANGED <<spData, sp_workers, sp_next_peer, sp_hist, sp_log,
                 spCond, num_parties, full_random, need_ret, registryVars>>

\* PreSetup, lines 65-69
PreSetup_end(p) ==
  /\ sp_pc[p] = "presetup_end"
  /\ run_time_statistics_' =
       [run_time_statistics_ EXCEPT ![p] = Append(@, "kSpPresetup end")]
  /\ sp_result' = [sp_result EXCEPT ![p] = Append(@, "returned")]
  /\ sp_pc' = [sp_pc EXCEPT ![p] = "idle"]
  /\ UNCHANGED <<spData, sp_workers, sp_next_peer, sp_hist, sp_log,
                 spCond, spConfig, registryVars>>

\* (mutant) Setup clears the flag when it starts
Setup_begin_reset(p) ==
  /\ sp_pc[p] = "idle"
  /\ Len(sp_hist[p]) < MaxSpCalls
  /\ sp_hist' = [sp_hist EXCEPT ![p] = Append(@, "Setup")]
  /\ finished_' = [finished_ EXCEPT ![p] = FALSE]
  /\ IF ~NeedSps
       THEN /\ sp_result' = [sp_result EXCEPT ![p] = Append(@, "returned")]
            /\ UNCHANGED <<run_time_statistics_, sp_pc, sp_workers, sp_log>>
       ELSE /\ run_time_statistics_' =
                 [run_time_statistics_ EXCEPT ![p] = Append(@, "kSpSetup start")]
            /\ sp_pc' = [sp_pc EXCEPT ![p] = IF Peers(p) = {} THEN "parse" ELSE "send"]
            /\ sp_workers' = [sp_workers EXCEPT ![p] = Peers(p)]
            /\ sp_log' = [sp_log EXCEPT ![p] = <<>>]
            /\ UNCHANGED sp_result
  /\ sp_next_peer' = [sp_next_peer EXCEPT ![p] = NextPeer(p, 0)]
  /\ UNCHANGED <<spData, cond_mutex, notify_count, wpc, spConfig, registryVars>>

\* Setup, lines 71-79
Setup_begin(p) ==
  /\ sp_pc[p] = "idle"
  /\ Len(sp_hist[p]) < MaxSpCalls
  /\ sp_hist' = [sp_hist EXCEPT ![p] = Append(@, "Setup")]
  /\ IF ~NeedSps
       THEN /\ sp_result' = [sp_result EXCEPT ![p] = Append(@, "returned")]
            /\ UNCHANGED <<run_time_statistics_, sp_pc, sp_workers, sp_log>>
       ELSE /\ run_time_statistics_' =
                 [run_time_statistics_ EXCEPT ![p] = Append(@, "kSpSetup start")]
            /\ sp_pc' = [sp_pc EXCEPT ![p] = IF Peers(p) = {} THEN "parse" ELSE "send"]
            /\ sp_workers' = [sp_workers EXCEPT ![p] = Peers(p)]
            /\ sp_log' = [sp_log EXCEPT ![p] = <<>>]
            /\ UNCHANGED sp_result
  /\ sp_next_peer' = [sp_next_peer EXCEPT ![p] = NextPeer(p, 0)]
  /\ UNCHANGED <<spData, spCond, spConfig, registryVars>>

\* SendMessages / SendCorrections on every handle of a list: the OT is marked
\* sent; a sender OT draws its masks
SendAll(provider, list, is_sender, seed) ==
  [h \in 1 .. Len(provider) |->
     IF h \in SeqToSet(list) /\ ~provider[h].sent
       THEN IF is_sender
              THEN [provider[h] EXCEPT
                      !.sent = TRUE,
                      !.mask = MaskVector(seed + h, provider[h].bit_size, provider[h].n_ots)]
              ELSE [provider[h] EXCEPT !.sent = TRUE]
       ELSE provider[h]]

\* (mutant) Setup goes on to ParseOutputs when the first worker is done
Setup_worker_no_barrier(p, i) ==
  /\ sp_pc[p] = "send"
  /\ i \in sp_workers[p]
  /\ \E seed \in MaskSeeds :
       ot_send' = [ot_send EXCEPT ![p][i] = SendAll(@, ots_sender_[p][i], TRUE, seed)]
  /\ ot_recv' = [ot_recv EXCEPT ![p][i] = SendAll(@, ots_receiver_[p][i], FALSE, 0)]
  /\ sp_workers' = [sp_workers EXCEPT ![p] = @ \ {i}]
  /\ sp_pc' = [sp_pc EXCEPT ![p] = "parse"]
  /\ sp_next_peer' = [sp_next_peer EXCEPT ![p] = i]
  /\ sp_log' = [sp_log EXCEPT ![p] = Append(@, <<"send", i>>)]
  /\ UNCHANGED <<sps_a, sps_c, ots_sender_, ots_receiver_, parse_log, sp_result,
                 sp_hist, run_time_statistics_, spCond, spConfig, registryVars>>

\* Setup, lines 81-92: the iteration of the parallel loop for peer i.  A call
\* of SendMessages or SendCorrections may throw (fails); an exception that
\* leaves the structured block of an OpenMP parallel region ends the program
\* through std::terminate, and in a build without OpenMP it leaves Setup.
Setup_worker(p, i) ==
  /\ sp_pc[p] = "send"
  /\ i \in sp_workers[p]
  /\ \E fails \in BOOLEAN :
       /\ fails => ots_sender_[p][i] # <<>> \/ ots_receiver_[p][i] # <<>>
       /\ IF fails
            THEN /\ \E outcome \in {"terminated", "failed"} :
                      /\ sp_pc' = [sp_pc EXCEPT ![p] = outcome]
                      /\ sp_result' = [sp_result EXCEPT ![p] =
                           Append(@, IF outcome = "failed" THEN "threw" ELSE outcome)]
                 /\ sp_log' = [sp_log EXCEPT ![p] = Append(@, <<"send failed", i>>)]
                 /\ UNCHANGED <<ot_send, ot_recv, sp_workers>>
            ELSE /\ \E seed \in MaskSeeds :
                      ot_send' = [ot_send EXCEPT ![p][i] =
                                    SendAll(@, ots_sender_[p][i], TRUE, seed)]
                 /\ ot_recv' = [ot_recv EXCEPT ![p][i] =
                                  SendAll(@, ots_receiver_[p][i], FALSE, 0)]
                 /\ sp_workers' = [sp_workers EXCEPT ![p] = @ \ {i}]
                 /\ sp_pc' = [sp_pc EXCEPT ![p] = IF sp_workers[p] = {i} THEN "parse" ELSE @]
                 /\ sp_log' = [sp_log EXCEPT ![p] = Append(@, <<"send", i>>)]
                 /\ UNCHANGED sp_result
  /\ UNCHANGED <<sps_a, sps_c, ots_sender_, ots_receiver_, parse_log, sp_next_peer,
                 sp_hist, run_time_statistics_, spCond, spConfig, registryVars>>

\* what GetOutputs returns for every handle party p holds towards peer i; short
\* is the handle, if any, whose OT delivers one output too few
OutputsOf(p, i, short) ==
  LET n == IF i < p THEN Len(ot_send[p][i]) ELSE Len(ot_recv[p][i])
      full(h) == IF i < p
                   THEN (IF OtComplete(p, i, h) THEN SenderOutputs(p, i, h) ELSE <<>>)
                   ELSE (IF OtComplete(i, p, h) THEN ReceiverOutputs(p, i, h) ELSE <<>>)
  IN [h \in 1 .. n |->
        IF h = short /\ full(h) # <<>> THEN SubSeq(full(h), 1, Len(full(h)) - 1)
        ELSE full(h)]

\* the handles ParseOutputs will call GetOutputs on, for peer i
HandlesToParse(p, i) ==
  LET list == IF i < p THEN ots_sender_[p][i] ELSE ots_receiver_[p][i]
  IN SubSeq(list, 1, Min(Len(list), ExpectedBatches(1)))

\* ParseOutputs, lines 246-271: the iteration for the next peer i.  GetOutputs
\* blocks until the OT is complete.  front() of an empty std::list is undefined
\* behaviour: the process may die there, or run on with whatever it read.
ParseOutputs_peer(p) ==
  /\ sp_pc[p] = "parse"
  /\ sp_next_peer[p] < num_parties
  /\ LET i == sp_next_peer[p]
         handles == HandlesToParse(p, i)
     IN /\ \A k \in 1 .. Len(handles) :
               IF i < p THEN OtComplete(p, i, handles[k]) ELSE OtComplete(i, p, handles[k])
        /\ \E short \in {0} \cup SeqToSet(handles) :
             LET st == ParseWidths(
                         [list |-> IF i < p THEN ots_sender_[p][i] ELSE ots_receiver_[p][i],
                          c |-> sps_c[p], applied |-> <<>>, status |-> "ok"],
                         i < p, OutputsOf(p, i, short), 1)
             IN /\ sps_c' = [sps_c EXCEPT ![p] = st.c]
                /\ IF i < p
                     THEN /\ ots_sender_' = [ots_sender_ EXCEPT ![p][i] = st.list]
                          /\ UNCHANGED ots_receiver_
                     ELSE /\ ots_receiver_' = [ots_receiver_ EXCEPT ![p][i] = st.list]
                          /\ UNCHANGED ots_sender_
                /\ parse_log' = [parse_log EXCEPT ![p][i] = @ \o st.applied]
                /\ \E outcome \in CASE st.status = "ok" -> {"ok"}
                                    [] st.status = "out_of_range" -> {"failed"}
                                    [] OTHER -> {"crashed", "ub"} :
                     /\ sp_log' = [sp_log EXCEPT ![p] = Append(@, <<"parse " \o outcome, i>>)]
                     /\ IF outcome \in {"ok", "ub"}
                          THEN /\ sp_next_peer' =
                                    [sp_next_peer EXCEPT ![p] = NextPeer(p, i + 1)]
                               /\ sp_pc' = [sp_pc EXCEPT ![p] =
                                    IF NextPeer(p, i + 1) = num_parties THEN "lock" ELSE @]
                               /\ UNCHANGED sp_result
                          ELSE /\ sp_pc' = [sp_pc EXCEPT ![p] = outcome]
                               /\ sp_result' = [sp_result EXCEPT ![p] =
                                    Append(@, IF outcome = "failed" THEN "threw" ELSE outcome)]
                               /\ UNCHANGED sp_next_peer
  /\ UNCHANGED <<sps_a, ot_send, ot_recv, sp_workers, sp_hist, run_time_statistics_,
                 spCond, spConfig, registryVars>>

\* (mutant) Setup does not take the mutex before it writes the flag
Setup_lock_unlocked(p) ==
  /\ sp_pc[p] = "lock"
  /\ sp_pc' = [sp_pc EXCEPT ![p] = "set"]
  /\ UNCHANGED <<spData, sp_workers, sp_next_peer, sp_hist, sp_result, sp_log,
                 run_time_statistics_, finished_, cond_mutex, notify_count, wpc,
                 spConfig, registryVars>>

\* Setup, line 96: std::scoped_lock lock(finished_condition_->GetMutex())
Setup_lock(p) ==
  /\ sp_pc[p] = "lock"
  /\ cond_mutex[p] = Free
  /\ cond_mutex' = [cond_mutex EXCEPT ![p] = SetupThread]
  /\ sp_pc' = [sp_pc EXCEPT ![p] = "set"]
  /\ UNCHANGED <<spData, sp_workers, sp_next_peer, sp_hist, sp_result, sp_log,
                 run_time_statistics_, finished_, notify_count, wpc, spConfig,
                 registryVars>>

\* Setup, lines 97-98: finished_ = true, then the lock is released
Setup_finished(p) ==
  /\ sp_pc[p] = "set"
  /\ finished_' = [finished_ EXCEPT ![p] = TRUE]
  /\ cond_mutex' = [cond_mutex EXCEPT ![p] = Free]
  /\ sp_pc' = [sp_pc EXCEPT ![p] = "notify"]
  /\ sp_log' = [sp_log EXCEPT ![p] = Append(@, <<"finished", p>>)]
  /\ UNCHANGED <<spData, sp_workers, sp_next_peer, sp_hist, sp_result,
                 run_time_statistics_, notify_count, wpc, spConfig, registryVars>>

\* Setup, line 99: finished_condition_->NotifyAll() wakes every sleeping waiter
Setup_notify(p) ==
  /\ sp_pc[p] = "notify"
  /\ notify_count' = [notify_count EXCEPT ![p] = @ + 1]
  /\ wpc' = [wpc EXCEPT ![p] =
               [x \in DOMAIN @ |-> IF @[x] = "sleeping" THEN "woken" ELSE @[x]]]
  /\ sp_pc' = [sp_pc EXCEPT ![p] = "end"]
  /\ sp_log' = [sp_log EXCEPT ![p] = Append(@, <<"NotifyAll", p>>)]
  /\ UNCHANGED <<spData, sp_workers, sp_next_peer, sp_hist, sp_result,
                 run_time_statistics_, finished_, cond_mutex, spConfig, registryVars>>

\* Setup, lines 101-105
Setup_end(p) ==
  /\ sp_pc[p] = "end"
  /\ run_time_statistics_' =
       [run_time_statistics_ EXCEPT ![p] = Append(@, "kSpSetup end")]
  /\ sp_result' = [sp_result EXCEPT ![p] = Append(@, "returned")]
  /\ sp_pc' = [sp_pc EXCEPT ![p] = "idle"]
  /\ UNCHANGED <<spData, sp_workers, sp_next_peer, sp_hist, sp_log,
                 spCond, spConfig, registryVars>>

(***************************************************************************)
(* Threads waiting on the completion condition: FiberCondition::Wait locks  *)
(* the mutex and waits on the condition variable with the predicate         *)
(* [this]() { return finished_; } of line 40.  wpc[p][x] is the position of *)
(* waiter x of party p: "idle" (not yet called), "lock" (in Wait, needs the mutex), "check" (holds the mutex,  *)
(* about to evaluate the predicate), "wait" (predicate was false, still     *)
(* holds the mutex), "sleeping" (mutex released, blocked on the condition   *)
(* variable), "woken" (notified, has to take the mutex again), "done".      *)
(***************************************************************************)
Waiters(p) == DOMAIN wpc[p]

\* a thread calls Wait on the completion condition
Wait_enter(p, x) ==
  /\ wpc[p][x] = "idle"
  /\ wpc' = [wpc EXCEPT ![p][x] = "lock"]
  /\ UNCHANGED <<spData, spControl, finished_, cond_mutex, notify_count, spConfig,
                 registryVars>>

\* std::unique_lock lock(mutex_), and the re-acquisition when wait wakes up
Wait_lock(p, x) ==
  /\ wpc[p][x] \in {"lock", "woken"}
  /\ cond_mutex[p] = Free
  /\ cond_mutex' = [cond_mutex EXCEPT ![p] = x]
  /\ wpc' = [wpc EXCEPT ![p][x] = "check"]
  /\ UNCHANGED <<spData, spControl, finished_, notify_count, spConfig, registryVars>>

\* the predicate is evaluated with the mutex held; Wait returns when it is true
Wait_check(p, x) ==
  /\ wpc[p][x] = "check"
  /\ IF finished_[p]
       THEN /\ wpc' = [wpc EXCEPT ![p][x] = "done"]
            /\ cond_mutex' = [cond_mutex EXCEPT ![p] = Free]
       ELSE /\ wpc' = [wpc EXCEPT ![p][x] = "wait"]
            /\ UNCHANGED cond_mutex
  /\ UNCHANGED <<spData, spControl, finished_, notify_count, spConfig, registryVars>>

\* condition_variable::wait releases the mutex and blocks in one atomic step
Wait_sleep(p, x) ==
  /\ wpc[p][x] = "wait"
  /\ wpc' = [wpc EXCEPT ![p][x] = "sleeping"]
  /\ cond_mutex' = [cond_mutex EXCEPT ![p] = Free]
  /\ UNCHANGED <<spData, spControl, finished_, notify_count, spConfig, registryVars>>

(***************************************************************************)
(* Initial states of the providers: P parties, each with a freshly          *)
(* constructed SpProviderFromOts (lines 38-51: one empty handle list per    *)
(* OT provider) and the counts the circuit build left behind.               *)
(***************************************************************************)
\* bool finished_ of SpProvider, before any Setup
InitFinished(P) == finished_ = [p \in 0 .. P - 1 |-> FALSE]

InitProviders(P, counts, random, waiters) ==
  /\ num_parties = P /\ number_of_sps = counts /\ full_random = random
  /\ need_ret = <<>>
  /\ sps_a = [p \in 0 .. P - 1 |-> [w \in Widths |-> <<>>]]
  /\ sps_c = [p \in 0 .. P - 1 |-> [w \in Widths |-> <<>>]]
  /\ ots_sender_ = [p \in 0 .. P - 1 |-> [i \in 0 .. P - 1 |-> <<>>]]
  /\ ots_receiver_ = [p \in 0 .. P - 1 |-> [i \in 0 .. P - 1 |-> <<>>]]
  /\ ot_send = [p \in 0 .. P - 1 |-> [i \in 0 .. P - 1 |-> <<>>]]
  /\ ot_recv = [p \in 0 .. P - 1 |-> [i \in 0 .. P - 1 |-> <<>>]]
  /\ parse_log = [p \in 0 .. P - 1 |-> [i \in 0 .. P - 1 |-> <<>>]]
  /\ sp_pc = [p \in 0 .. P - 1 |-> "idle"]
  /\ sp_workers = [p \in 0 .. P - 1 |-> {}]
  /\ sp_next_peer = [p \in 0 .. P - 1 |-> 0]
  /\ sp_hist = [p \in 0 .. P - 1 |-> <<>>]
  /\ sp_result = [p \in 0 .. P - 1 |-> <<>>]
  /\ sp_log = [p \in 0 .. P - 1 |-> <<>>]
  /\ run_time_statistics_ = [p \in 0 .. P - 1 |-> <<>>]
  /\ InitFinished(P)
  /\ cond_mutex = [p \in 0 .. P - 1 |-> Free]
  /\ notify_count = [p \in 0 .. P - 1 |-> 0]
  /\ wpc = [p \in 0 .. P - 1 |-> [x \in waiters[p] |-> "idle"]]

NoWaiters == [p \in 0 .. NumParties |-> {}]

\* the providers of all parties, each driven by its own thread
NextSp ==
  \/ \E p \in Parties : PreSetup_begin(p)
  \/ \E p \in Parties : \E i \in Parties : RegisterOts_worker(p, i)
  \/ \E p \in Parties : PreSetup_end(p)
  \/ \E p \in Parties : Setup_begin(p)
  \/ \E p \in Parties : \E i \in Parties : Setup_worker(p, i)
  \/ \E p \in Parties : ParseOutputs_peer(p)
  \/ \E p \in Parties : Setup_lock(p)
  \/ \E p \in Parties : Setup_finished(p)
  \/ \E p \in Parties : Setup_notify(p)
  \/ \E p \in Parties : Setup_end(p)

InitSp ==
  /\ InitCore /\ ndebug = TRUE /\ my_id = 0
  /\ \E counts \in [Widths -> 0 .. MaxCount] :
       InitProviders(NumParties, counts, FALSE, NoWaiters)

SpecSp == InitSp /\ [][NextSp]_vars

\* the backend's use of the providers: every party calls PreSetup once and then
\* Setup once
NextSq ==
  \/ \E p \in Parties : sp_hist[p] = <<>> /\ PreSetup_begin(p)
  \/ \E p \in Parties : \E i \in Parties : RegisterOts_worker(p, i)
  \/ \E p \in Parties : PreSetup_end(p)
  \/ \E p \in Parties : sp_hist[p] = <<"PreSetup">> /\ Setup_begin(p)
  \/ \E p \in Parties : \E i \in Parties : Setup_worker(p, i)
  \/ \E p \in Parties : ParseOutputs_peer(p)
  \/ \E p \in Parties : Setup_lock(p)
  \/ \E p \in Parties : Setup_finished(p)
  \/ \E p \in Parties : Setup_notify(p)
  \/ \E p \in Parties : Setup_end(p)

\* two parties with every random value, or three with one value each
InitSq ==
  /\ InitCore /\ ndebug = TRUE /\ my_id = 0
  /\ \/ \E counts \in {<<MaxPairs, 0>>, <<0, 1>>} :
          InitProviders(NumParties, counts, TRUE, NoWaiters)
     \/ \E counts \in {<<MaxCount, 0>>, <<1, 1>>} :
          InitProviders(NumParties + 1, counts, FALSE, NoWaiters)

SpecSq == InitSq /\ [][NextSq]_vars

\* the backend's use of the providers, with threads waiting on one party's
\* completion condition
NextFair ==
  \/ NextSq
  \/ \E p \in Parties : \E x \in Waiters(p) : Wait_enter(p, x)
  \/ \E p \in Parties : \E x \in Waiters(p) : Wait_lock(p, x)
  \/ \E p \in Parties : \E x \in Waiters(p) : Wait_check(p, x)
  \/ \E p \in Parties : \E x \in Waiters(p) : Wait_sleep(p, x)

InitFair ==
  /\ InitCore /\ ndebug = TRUE /\ my_id = 0
  /\ \E counts \in [Widths -> 0 .. 1] : \E q \in 0 .. NumParties - 1 :
       InitProviders(NumParties, counts, FALSE,
                     [p \in 0 .. NumParties - 1 |->
                        IF p = q THEN 1 .. NumWaiters ELSE {}])

\* the steps of party p's thread in Setup once ParseOutputs has returned
\* (lines 95-101)
CompletionStep(p) ==
  \/ Setup_lock(p)
  \/ Setup_finished(p)
  \/ Setup_notify(p)
  \/ Setup_end(p)

\* the steps of waiter x of party p inside Wait
WaitStep(p, x) ==
  /\ x \in Waiters(p)
  /\ Wait_lock(p, x) \/ Wait_check(p, x) \/ Wait_sleep(p, x)

\* fair scheduling: a thread that has left ParseOutputs, and a thread inside
\* Wait, eventually takes its next step, and a free mutex is handed over
Fairness ==
  \A p \in 0 .. NumParties - 1 :
    /\ WF_vars(CompletionStep(p))
    /\ \A x \in 1 .. NumWaiters : WF_vars(WaitStep(p, x))

SpecFair == InitFair /\ [][NextFair]_vars /\ Fairness

(***************************************************************************)
(* SpProvider::NeedSps as a function of the five counts.  Each count is a   *)
(* std::size_t; the model gives it SizeBits bits and draws it from the      *)
(* values at which a sum can wrap.                                          *)
(***************************************************************************)
CountValues == {0, 1, Pow2(SizeBits - 1), Pow2(SizeBits) - 1}

\* a call of NeedSps on a provider with the counts of number_of_sps
NeedSps_call ==
  /\ need_ret = <<>>
  /\ need_ret' = <<NeedSps>>
  /\ UNCHANGED <<num_parties, number_of_sps, full_random, spData, spControl, spCond,
                 registryVars>>

NextNeed == NeedSps_call

InitNeed ==
  /\ InitCore /\ ndebug = TRUE /\ my_id = 0
  /\ num_parties = 0 /\ full_random = FALSE /\ need_ret = <<>>
  /\ number_of_sps \in [1 .. 5 -> CountValues]
  /\ sps_a = <<>> /\ sps_c = <<>> /\ ots_sender_ = <<>> /\ ots_receiver_ = <<>>
  /\ ot_send = <<>> /\ ot_recv = <<>> /\ parse_log = <<>>
  /\ sp_pc = <<>> /\ sp_workers = <<>> /\ sp_next_peer = <<>> /\ sp_hist = <<>>
  /\ sp_result = <<>> /\ sp_log = <<>> /\ run_time_statistics_ = <<>>
  /\ finished_ = <<>> /\ cond_mutex = <<>> /\ notify_count = <<>> /\ wpc = <<>>

SpecNeed == InitNeed /\ [][NextNeed]_vars

(***************************************************************************)
(* Properties of the active queue.                                          *)
(***************************************************************************)
\* every producer has made all its calls, no call is in progress, the queue is empty
QueueDrained ==
  /\ \A p \in Producers : npush[p] = MaxPushes
  /\ \A t \in Threads : qpc[t] = "idle"
  /\ active_gates_ = <<>>

\* C1: with concurrent producers and consumers no gate id is returned by two
\* pops, no pop returns an id that was never pushed, and once the producers have
\* stopped and the queue is drained every pushed id was returned exactly once.
C1_EachPushedIdPoppedOnce ==
  /\ \A g \in IndeterminateIds : popped[g] <= 1
  /\ \A g \in IndeterminateIds : popped[g] > 0 => g \in pushed
  /\ QueueDrained => \A g \in pushed : popped[g] = 1

\* C2: the emptiness check, the read of the front and the pop are one critical
\* section, so pop() never runs on an empty queue.
C2_PopNeverOnEmptyQueue == ~pop_on_empty

(***************************************************************************)
(* Properties of the transport table.                                       *)
(***************************************************************************)
\* C8: a Send to the local party fails and calls no handler; a Send to another
\* party that has a registered handler calls that party's handler exactly once
\* and no other handler.
C8_SendDelegatesToExactlyOneHandler ==
  [][send_count' = send_count + 1 =>
       LET pid == core_ret'.value IN
         IF pid = my_id
           THEN core_ret'.status = "runtime_error" /\ handler_calls' = handler_calls
           ELSE (InRange(communication_handlers_, pid) /\ At(communication_handlers_, pid))
                  => /\ core_ret'.status = "ok"
                     /\ Len(handler_calls'[pid]) = Len(handler_calls[pid]) + 1
                     /\ \A j \in PartyIds \ {pid} : handler_calls'[j] = handler_calls[j]]_vars

\* a self-send was refused after a send to another party was delegated, while the
\* local party's own slot holds a handler too
C8_Witness ==
  /\ send_count = 2
  /\ core_ret.op = "Send" /\ core_ret.status = "runtime_error"
  /\ InRange(communication_handlers_, my_id) /\ At(communication_handlers_, my_id)
  /\ handler_calls[my_id] = <<>>
  /\ \E j \in PartyIds \ {my_id} : Len(handler_calls[j]) = 1

(***************************************************************************)
(* Properties of the gate table.                                            *)
(***************************************************************************)
\* what GetGate(i) has to return: the i-th gate registered, or the tombstone
ExpectedGate(i) == IF i \in unregistered THEN nullptr ELSE At(registered_log, i)

\* C9: the table holds one slot per registered gate and never shrinks; slot i
\* holds the i-th registered gate unless UnregisterGate(i) was called, and the
\* tombstone from then on; GetGate(i) returns what slot i holds.
C9_GateTableSlots ==
  /\ Len(gates_) = Len(registered_log)
  /\ \A i \in 0 .. Len(gates_) - 1 : At(gates_, i) = ExpectedGate(i)
  /\ (core_ret.op = "GetGate" /\ core_ret.status = "ok")
       => core_ret.value = ExpectedGate(core_ret.arg)

\* slot 0 was tombstoned, two gates were registered after it, and GetGate(0)
\* returns the tombstone while slot 1 is live
C9_Witness ==
  /\ Len(gates_) = 3
  /\ unregistered = {0}
  /\ At(registered_log, 0) \in Gates
  /\ At(gates_, 1) \in Gates
  /\ core_ret.op = "GetGate" /\ core_ret.status = "ok"
  /\ core_ret.arg = 0 /\ core_ret.value = nullptr

(***************************************************************************)
(* Properties of the allocators.                                            *)
(***************************************************************************)
\* C10: the k-th NextGateId call returns k-1, the k-th NextWireId call returns
\* k-1 (so neither returns an id twice), whatever other allocator calls are
\* made in between, and GetTotalNumOfGates is the number of NextGateId calls.
C10_GateAndWireIdsCountFromZero ==
  /\ \A k \in 1 .. Len(gate_id_log) : gate_id_log[k] = k - 1
  /\ \A k \in 1 .. Len(wire_id_log) : wire_id_log[k] = k - 1
  /\ GetTotalNumOfGates = Len(gate_id_log)

\* two gate ids, a wire id and a sharing range have been handed out
C10_Witness ==
  /\ Len(gate_id_log) = 2
  /\ Len(wire_id_log) = 1
  /\ Len(arith_log) = 1
  /\ core_ret.op = "NextGateId" /\ core_ret.value = 1


\* the ranges of a log follow each other without gap or overlap, from 0 on
Contiguous(log) ==
  /\ Len(log) > 0 => log[1][1] = 0
  /\ \A k \in 1 .. Len(log) - 1 : log[k + 1][1] = log[k][1] + log[k][2]

RangeOf(entry) == entry[1] .. entry[1] + entry[2] - 1

\* C11: when every call asked for at least one value, the first call of each
\* allocator returned 0 and each later call returned the previous start plus
\* the previous count, so the ranges of one allocator are pairwise disjoint and
\* contiguous, whatever calls of the other allocators came in between.
C11_SharingRangesAreContiguous ==
  /\ (\A k \in 1 .. Len(arith_log) : arith_log[k][2] >= 1) =>
        /\ Contiguous(arith_log)
        /\ \A j, k \in 1 .. Len(arith_log) :
              j # k => RangeOf(arith_log[j]) \cap RangeOf(arith_log[k]) = {}
        /\ core_ret.op = "NextArithmeticSharingId" /\ core_ret.status = "ok" =>
              core_ret.value = arith_log[Len(arith_log)][1]
  /\ (\A k \in 1 .. Len(gmw_log) : gmw_log[k][2] >= 1) =>
        /\ Contiguous(gmw_log)
        /\ \A j, k \in 1 .. Len(gmw_log) :
              j # k => RangeOf(gmw_log[j]) \cap RangeOf(gmw_log[k]) = {}
        /\ core_ret.op = "NextBooleanGMWSharingId" /\ core_ret.status = "ok" =>
              core_ret.value = gmw_log[Len(gmw_log)][1]

\* arithmetic ranges [0, 2) and [2, 4) with a boolean range handed out in
\* between
C11_Witness ==
  /\ arith_log = <<<<0, 2>>, <<2, 2>>>>
  /\ gmw_log = <<<<0, 1>>>>
  /\ core_ret.op = "NextArithmeticSharingId" /\ core_ret.value = 2

\* C14: a call that asks for zero values is rejected with an error the caller
\* can handle: the process is not aborted, and no empty range is handed out.
C14_ZeroCountIsRejected ==
  /\ core_ret.status # "abort"
  /\ \A k \in 1 .. Len(arith_log) : arith_log[k][2] # 0
  /\ \A k \in 1 .. Len(gmw_log) : gmw_log[k][2] # 0


(***************************************************************************)
(* Properties of the square-pair provider.                                  *)
(***************************************************************************)
RECURSIVE SumParties(_, _, _, _)
SumParties(v, w, k, p) ==
  IF p >= num_parties THEN 0 ELSE v[p][w][k] + SumParties(v, w, k, p + 1)

\* every party has called PreSetup and then Setup, and both calls returned
AllSetupDone ==
  \A p \in Parties : /\ sp_hist[p] = <<"PreSetup", "Setup">>
                     /\ sp_result[p] = <<"returned", "returned">>

\* C3: once every party has run PreSetup and then Setup to the end against the
\* ideal OT, for every width and every index the parties' c values sum to the
\* square of the sum of their a values, modulo 2^bit_size.
C3_SquarePairsAreCorrect ==
  AllSetupDone =>
    \A w \in Widths : \A k \in 1 .. number_of_sps[w] :
      /\ \A p \in Parties : Len(sps_a[p][w]) = number_of_sps[w]
                            /\ Len(sps_c[p][w]) = number_of_sps[w]
      /\ LET A == SumParties(sps_a, w, k, 0) % Pow2(bit_size(w))
         IN SumParties(sps_c, w, k, 0) % Pow2(bit_size(w)) = (A * A) % Pow2(bit_size(w))

\* a finished three-party run over two batches of the first width
C3_Witness ==
  /\ AllSetupDone
  /\ num_parties > 2
  /\ number_of_sps[1] > kMaxBatchSize
  /\ \A p \in Parties : \A i \in Peers(p) : Len(parse_log[p][i]) > 1

\* no pairs are requested at all
NoPairsRequested == \A w \in DOMAIN number_of_sps : number_of_sps[w] = 0

\* C12: when every count is zero, PreSetup and Setup change nothing: no OT is
\* registered or held in a list, nothing is sent or parsed, no statistics id is
\* recorded, the a and c vectors stay empty, finished_ stays false and nobody
\* is notified.
C12_NothingHappensWithoutPairs ==
  NoPairsRequested =>
    \A p \in Parties :
      /\ sp_pc[p] = "idle"
      /\ \A i \in Parties :
            /\ ot_send[p][i] = <<>> /\ ot_recv[p][i] = <<>>
            /\ ots_sender_[p][i] = <<>> /\ ots_receiver_[p][i] = <<>>
            /\ parse_log[p][i] = <<>>
      /\ sp_log[p] = <<>>
      /\ run_time_statistics_[p] = <<>>
      /\ \A w \in Widths : sps_a[p][w] = <<>> /\ sps_c[p][w] = <<>>
      /\ ~finished_[p] /\ notify_count[p] = 0
      /\ \A k \in 1 .. Len(sp_result[p]) : sp_result[p][k] = "returned"

\* both parties have called PreSetup and Setup with no pairs requested
C12_Witness ==
  /\ NoPairsRequested
  /\ \A p \in Parties : /\ sp_hist[p] = <<"PreSetup", "Setup", "Setup">>
                        /\ Len(sp_result[p]) = 3

\* C13: NeedSps returns true exactly when one of the five counts is greater
\* than zero.
C13_NeedSpsIsTheDisjunction ==
  need_ret # <<>> =>
    need_ret[1] = (\E w \in DOMAIN number_of_sps : number_of_sps[w] > 0)


\* the PreSetup calls made on party p's provider, from the k-th call on
RECURSIVE PreSetupsDone(_, _)
PreSetupsDone(p, k) ==
  IF k > Len(sp_hist[p]) THEN 0
  ELSE (IF sp_hist[p][k] = "PreSetup" THEN 1 ELSE 0) + PreSetupsDone(p, k + 1)

\* what an OT was registered with
Registration(ot) ==
  [w |-> ot.w, bit_size |-> ot.bit_size, n_ots |-> ot.n_ots, sp_id |-> ot.sp_id]

\* C15: for parties i < j that have each run RegisterOts once, the sender
\* OTs j registered towards i and the receiver OTs i registered towards j are
\* equally many, and the k-th of each was registered for the same width, the
\* same number of messages and the same index range, with the widths in
\* ascending order; before Setup the two handle lists hold exactly these handles.
C15_HandlesMatchAcrossParties ==
  \A i, j \in Parties :
    (i < j /\ sp_pc[i] # "register" /\ sp_pc[j] # "register"
       /\ PreSetupsDone(i, 1) = 1 /\ PreSetupsDone(j, 1) = 1) =>
      /\ Len(ot_send[j][i]) = Len(ot_recv[i][j])
      /\ \A k \in 1 .. Len(ot_send[j][i]) :
            Registration(ot_send[j][i][k]) = Registration(ot_recv[i][j][k])
      /\ \A k \in 1 .. Len(ot_send[j][i]) - 1 :
            ot_send[j][i][k].w <= ot_send[j][i][k + 1].w
      /\ (sp_hist[i] = <<"PreSetup">> /\ sp_hist[j] = <<"PreSetup">>) =>
            /\ Len(ots_sender_[j][i]) = Len(ots_receiver_[i][j])
            /\ ots_sender_[j][i] = [k \in 1 .. Len(ot_send[j][i]) |-> k]
            /\ ots_receiver_[i][j] = [k \in 1 .. Len(ot_recv[i][j]) |-> k]

\* three parties after RegisterOts, with one handle of each width per pair
C15_Witness ==
  /\ num_parties = 3
  /\ \A p \in Parties : sp_hist[p] = <<"PreSetup">> /\ sp_result[p] = <<"returned">>
  /\ Len(ots_sender_[2][0]) = 2 /\ Len(ots_receiver_[0][2]) = 2
  /\ ot_send[2][0][2].w = 2 /\ ot_recv[1][2][1].w = 1


\* the last entry of a log, <<"", 0>> for the empty one
LastOf(seq) == IF seq = <<>> THEN <<"", 0>> ELSE seq[Len(seq)]

\* every handle in party p's lists has had SendMessages / SendCorrections called
AllHandlesSent(p) ==
  \A i \in Peers(p) :
    /\ \A k \in 1 .. Len(ots_sender_[p][i]) : ot_send[p][i][ots_sender_[p][i][k]].sent
    /\ \A k \in 1 .. Len(ots_receiver_[p][i]) : ot_recv[p][i][ots_receiver_[p][i][k]].sent

\* the peers ParseOutputs has gone through in the last Setup call of party p
ParsedPeers(p) ==
  {sp_log[p][k][2] :
     k \in {n \in 1 .. Len(sp_log[p]) : sp_log[p][n][1] \in {"parse ok", "parse ub"}}}

\* C16: within a Setup call, outputs are read only when the parallel loop has
\* ended and every handle of every peer has been sent; finished_ is written
\* only when ParseOutputs has visited every peer; and the end of kSpSetup is
\* recorded only after NotifyAll.
C16_SetupStepsAreOrdered ==
  [][\A p \in Parties :
       /\ (sp_log'[p] # sp_log[p] /\ LastOf(sp_log'[p])[1] \in
              {"parse ok", "parse failed", "parse crashed", "parse ub"}) =>
            sp_workers[p] = {} /\ AllHandlesSent(p)
       /\ (sp_log'[p] # sp_log[p] /\ LastOf(sp_log'[p])[1] = "finished") =>
            ParsedPeers(p) = Peers(p)
       /\ (run_time_statistics_'[p] =
              Append(run_time_statistics_[p], "kSpSetup end")) =>
            LastOf(sp_log[p])[1] = "NotifyAll"]_vars

\* a party with two peers has gone through a whole Setup call
C16_Witness ==
  \E p \in Parties :
    /\ Cardinality(Peers(p)) = 2
    /\ number_of_sps[1] > 0
    /\ ParsedPeers(p) = Peers(p)
    /\ LastOf(sp_log[p])[1] = "NotifyAll"
    /\ run_time_statistics_[p] # <<>>
    /\ run_time_statistics_[p][Len(run_time_statistics_[p])] = "kSpSetup end"


\* what party p holds for peer k: both handle lists and both ends at the OT
\* provider of that peer
PeerState(p, k) == <<ots_sender_[p][k], ots_receiver_[p][k], ot_send[p][k], ot_recv[p][k]>>

\* what RegisterOts leaves for peer i on a fresh provider of party p, computed
\* from p's a vectors alone
RegisteredFor(p, i) ==
  LET fresh == [provider |-> <<>>, list |-> <<>>]
      snd == IF i < p THEN RegisterSendWidths(fresh, sps_a[p], 1) ELSE fresh
      rcv == IF i > p THEN RegisterReceiveWidths(fresh, sps_a[p], 1) ELSE fresh
  IN <<snd.list, rcv.list, snd.provider, rcv.provider>>

\* C17: a step of a worker of the parallel loop of RegisterOts or of Setup, run
\* for peer i, leaves the handle lists and the OT provider of every other peer
\* as they were and writes no a or c vector; and when the loop of RegisterOts
\* has ended, what was registered for each peer does not depend on the order
\* in which the workers ran.
C17_WorkersAreIndependent ==
  /\ [][\A p \in Parties :
          (sp_pc[p] \in {"register", "send"} /\ sp_workers'[p] # sp_workers[p]) =>
            \E i \in sp_workers[p] :
              /\ sp_workers'[p] = sp_workers[p] \ {i}
              /\ \A k \in Parties \ {i} :
                    PeerState(p, k)' = PeerState(p, k)
              /\ sps_a' = sps_a /\ sps_c' = sps_c]_vars
  /\ [](\A p \in Parties :
          (sp_hist[p] = <<"PreSetup">> /\ sp_pc[p] \in {"presetup_end", "idle"}) =>
            \A i \in Parties : PeerState(p, i) = RegisteredFor(p, i))

\* a party with two peers between its two RegisterOts workers: one peer has
\* its handles, the other has none yet
C17_Witness ==
  \E p \in Parties : \E i, k \in Peers(p) :
    /\ sp_pc[p] = "register"
    /\ sp_workers[p] = {k}
    /\ i > k
    /\ PeerState(p, i) # PeerState(p, k)
    /\ PeerState(p, k) = <<<<>>, <<>>, <<>>, <<>>>>


\* C18: at every party p, the receiver list of every peer below p is empty,
\* the sender list of every peer above p is empty, and both lists at p itself
\* are empty; the same holds for what p registered at the OT providers.
C18_RolesAreSeparated ==
  \A p \in Parties : \A i \in Parties :
    /\ i < p => ots_receiver_[p][i] = <<>> /\ ot_recv[p][i] = <<>>
    /\ i > p => ots_sender_[p][i] = <<>> /\ ot_send[p][i] = <<>>
    /\ i = p => /\ ots_sender_[p][i] = <<>> /\ ots_receiver_[p][i] = <<>>
                /\ ot_send[p][i] = <<>> /\ ot_recv[p][i] = <<>>

\* the middle party of three holds sender handles for the party below it and
\* receiver handles for the party above it
C18_Witness ==
  /\ num_parties = 3
  /\ ots_sender_[1][0] # <<>>
  /\ ots_receiver_[1][2] # <<>>


\* the OTs of a provider end that were registered for width w, in order
OfWidth(provider, w) ==
  LET IsOfWidth(ot) == ot.w = w
  IN SelectSeq(provider, IsOfWidth)

\* the batches of one width: as many as ceil(n / kMaxBatchSize), each of 1 to
\* kMaxBatchSize pairs at bit_size(w) messages per pair, the first starting at
\* index 0, each next one where the one before ends, the last ending at n
BatchesCover(ots, w) ==
  LET n == number_of_sps[w]
      b(k) == ots[k].n_ots \div bit_size(w)
  IN /\ Len(ots) = (n + kMaxBatchSize - 1) \div kMaxBatchSize
     /\ \A k \in 1 .. Len(ots) :
           /\ ots[k].bit_size = bit_size(w)
           /\ ots[k].n_ots = b(k) * bit_size(w)
           /\ b(k) >= 1 /\ b(k) <= kMaxBatchSize
           /\ ots[k].sp_id = IF k = 1 THEN 0 ELSE ots[k - 1].sp_id + b(k - 1)
           /\ k = Len(ots) => ots[k].sp_id + b(k) = n
     /\ n = 0 => ots = <<>>

\* C19: after one RegisterOts, for every peer and every width the registered
\* OTs are ceil(n / kMaxBatchSize) batches that cover the indices 0 .. n-1 in
\* order, each index once; a sender OT carries one message of bit_size bits
\* per pair and bit, a receiver OT one choice bit; a width with no pairs has no
\* OT.
C19_BatchesCoverAllPairs ==
  \A p \in Parties : \A i \in Peers(p) :
    (PreSetupsDone(p, 1) = 1 /\ sp_pc[p] # "register" /\ NeedSps) =>
      \A w \in Widths :
        /\ i < p =>
              /\ BatchesCover(OfWidth(ot_send[p][i], w), w)
              /\ \A k \in 1 .. Len(ot_send[p][i]) :
                    /\ Len(ot_send[p][i][k].inputs) = ot_send[p][i][k].n_ots
                    /\ \A e \in 1 .. Len(ot_send[p][i][k].inputs) :
                          Len(ot_send[p][i][k].inputs[e]) = ot_send[p][i][k].bit_size
        /\ i > p =>
              /\ BatchesCover(OfWidth(ot_recv[p][i], w), w)
              /\ \A k \in 1 .. Len(ot_recv[p][i]) :
                    Len(ot_recv[p][i][k].choices) = ot_recv[p][i][k].n_ots

\* three pairs of the first width in a batch of two and a batch of one, and no
\* pair of the second width, registered on both sides
C19_Witness ==
  /\ number_of_sps[1] = kMaxBatchSize + 1 /\ number_of_sps[2] = 0
  /\ Len(ot_send[1][0]) = 2 /\ Len(ot_recv[0][1]) = 2
  /\ ot_send[1][0][2].sp_id = kMaxBatchSize
  /\ ot_send[1][0][2].n_ots = bit_size(1)


\* party p ran PreSetup once and then Setup once, and that Setup has returned
RanOnce(p) ==
  /\ sp_hist[p] = <<"PreSetup", "Setup">>
  /\ sp_result[p] = <<"returned", "returned">>

\* ParseOutputs of party p called front() on an empty handle list
ReadEmptyFront(p) ==
  \E k \in 1 .. Len(sp_log[p]) : sp_log[p][k][1] \in {"parse ub", "parse crashed"}

\* C20: when pairs are needed and a party has run PreSetup once and then Setup
\* once, all its handle lists are empty, the handles ParseOutputs removed for a
\* peer are the handles RegisterOts appended for it, each once, and at no point
\* of the run did ParseOutputs read the front of an empty list.
C20_HandleListsAreDrained ==
  \A p \in Parties :
    /\ (NeedSps /\ sp_hist[p] \in {<<>>, <<"PreSetup">>, <<"PreSetup", "Setup">>})
          => ~ReadEmptyFront(p)
    /\ (NeedSps /\ RanOnce(p)) =>
          \A i \in Parties :
            /\ ots_sender_[p][i] = <<>>
            /\ ots_receiver_[p][i] = <<>>
            /\ i # p =>
                 /\ Len(parse_log[p][i]) = Len(ot_send[p][i]) + Len(ot_recv[p][i])
                 /\ \A k \in 1 .. Len(parse_log[p][i]) : parse_log[p][i][k].handle = k

\* both parties have run once, each with three handles to drain
C20_Witness ==
  /\ \A p \in Parties : RanOnce(p)
  /\ Len(ot_send[1][0]) = 3 /\ Len(parse_log[1][0]) = 3
  /\ Len(ot_recv[0][1]) = 3 /\ Len(parse_log[0][1]) = 3


\* slot gate_id of the gate table exists and holds a gate
LiveSlot(gate_id) == InRange(gates_, gate_id) /\ At(gates_, gate_id) # nullptr

\* C21: whenever an id is pushed on the active queue, it is at that moment the
\* index of a slot of the gate table that holds a gate: never an index past
\* the end of the table, never a slot UnregisterGate has set to nullptr.
C21_PushedIdsAreLive ==
  [][Len(active_gates_') = Len(active_gates_) + 1
       => LiveSlot(active_gates_'[Len(active_gates_')])]_vars


\* the batches ParseOutputs of party p worked through for peer i and width w
\* start where the batches RegisterOts registered start and have their sizes
SameBoundaries(p, i, w) ==
  LET reg == OfWidth(IF i < p THEN ot_send[p][i] ELSE ot_recv[p][i], w)
      par == OfWidth(parse_log[p][i], w)
  IN /\ Len(par) <= Len(reg)
     /\ \A k \in 1 .. Len(par) :
           /\ par[k].sp_id = reg[k].sp_id
           /\ par[k].batch * bit_size(w) = reg[k].n_ots

\* C22: no step of PreSetup, Setup, RegisterOts or ParseOutputs changes a
\* request count, so NeedSps has one value for the whole run, and the batches
\* ParseOutputs computes are the batches RegisterOts computed.
C22_CountsAreFrozen ==
  /\ [][number_of_sps' = number_of_sps /\ NeedSps' = NeedSps]_vars
  /\ [](\A p \in Parties : \A i \in Peers(p) : \A w \in Widths : SameBoundaries(p, i, w))

\* both parties are through PreSetup and Setup with the largest count of the
\* first width and one pair of the second, every batch parsed
C22_Witness ==
  /\ number_of_sps = <<MaxCount, 1>> /\ NeedSps
  /\ \A p \in Parties : RanOnce(p) /\ sp_pc[p] = "idle"
  /\ \A p \in Parties : \A i \in Peers(p) :
        Len(parse_log[p][i]) = ExpectedBatches(1) /\ Len(parse_log[p][i]) > 1


\* the last Setup call of party p met a failing SendMessages, SendCorrections
\* or ParseOutputs
SetupFailure(p) ==
  \E k \in 1 .. Len(sp_log[p]) :
    sp_log[p][k][1] \in {"send failed", "parse failed", "parse crashed", "parse ub"}

\* C4: when SendMessages, SendCorrections or ParseOutputs fails in a Setup
\* call (OT outputs too short, or fewer handles in a list than batches
\* expected), the call ends by throwing to its caller, finished_ is false and
\* nobody has been notified.
C4_FailureSurfacesAndFinishedStaysFalse ==
  \A p \in Parties :
    SetupFailure(p) =>
      /\ sp_pc[p] = "failed"
      /\ sp_result[p][Len(sp_result[p])] = "threw"
      /\ ~finished_[p]
      /\ notify_count[p] = 0

\* C5: finished_ is false when the provider is constructed, no step takes it
\* from true to false, and the only step that takes it from false to true is
\* the assignment in Setup, which runs after ParseOutputs has visited every
\* peer.
C5_FinishedIsMonotonic ==
  /\ \A p \in Parties : ~finished_[p]
  /\ [][\A p \in Parties :
          /\ finished_[p] => finished_'[p]
          /\ (~finished_[p] /\ finished_'[p]) =>
               /\ sp_pc[p] = "set" /\ sp_pc'[p] = "notify"
               /\ sp_hist[p][Len(sp_hist[p])] = "Setup"
               /\ sp_next_peer[p] = num_parties]_vars

\* a provider whose flag has been set by a Setup that parsed the outputs of
\* its peer
C5_Witness ==
  \E p \in Parties :
    /\ finished_[p]
    /\ sp_hist[p] = <<"PreSetup", "Setup">>
    /\ \E k \in 1 .. Len(sp_log[p]) : sp_log[p][k][1] = "parse ok"

\* C6: once a Setup call of party p has returned, every thread that has called
\* Wait on p's completion condition eventually returns from it.
SetupReturned(p) ==
  \E k \in 1 .. Len(sp_result[p]) : sp_hist[p][k] = "Setup" /\ sp_result[p][k] = "returned"

WaiterAt(p, x) == IF x \in Waiters(p) THEN wpc[p][x] ELSE "none"

C6_WaitersProceedAfterSetup ==
  \A p \in 0 .. NumParties - 1 : \A x \in 1 .. NumWaiters :
    (SetupReturned(p) /\ WaiterAt(p, x) \notin {"none", "idle"})
      ~> (WaiterAt(p, x) = "done")

\* C6, with the Setup call one that had pairs to compute
C6_WaitersProceedAfterSetupWithPairs ==
  \A p \in 0 .. NumParties - 1 : \A x \in 1 .. NumWaiters :
    (SetupReturned(p) /\ NeedSps /\ WaiterAt(p, x) \notin {"none", "idle"})
      ~> (WaiterAt(p, x) = "done")

\* a waiter that went to sleep before the flag was set and has returned
C6_Witness ==
  \E p \in Parties : \E x \in Waiters(p) :
    /\ wpc[p][x] = "done"
    /\ notify_count[p] > 0
    /\ \E y \in Waiters(p) : wpc[p][y] = "woken"

\* C7: the k-th handle ParseOutputs consumed for a peer is the k-th handle
\* RegisterOts registered for that peer, and its outputs were applied to the
\* width and the index range [sp_id, sp_id + batch) it was registered for.
C7_BatchFifo ==
  \A p \in Parties : \A i \in Peers(p) : \A k \in 1 .. Len(parse_log[p][i]) :
    LET used == parse_log[p][i][k]
        ot == IF i < p THEN ot_send[p][i][k] ELSE ot_recv[p][i][k]
    IN /\ used.handle = k
       /\ used.w = ot.w
       /\ used.sp_id = ot.sp_id
       /\ used.batch * bit_size(used.w) = ot.n_ots

\* a sender list and a receiver list of three handles each, over both widths,
\* parsed to the end
C7_Witness ==
  /\ Len(parse_log[1][0]) = 3 /\ Len(parse_log[0][1]) = 3
  /\ parse_log[1][0][3].w = 2
  /\ parse_log[1][0][2].sp_id = kMaxBatchSize

====
